---- MODULE Spec2Model ----
(***************************************************************************)
(* Model of the query/aggregation layer of the video-sharing backend:      *)
(* the like / subscription toggles, comment and playlist CRUD, the video   *)
(* listing and watch-history handlers and the user-account handlers.       *)
(* Every action is one HTTP handler, executed from its first line to its   *)
(* response; the authenticated principal (req.user) and the request's      *)
(* params/body are the action's inputs.                                    *)
(***************************************************************************)
EXTENDS Integers, Sequences, FiniteSets, TLC

\* ------------------------------------------------------------------ bounds
\* requests served in one run of the toggle specification
MaxToggleReqs == 3
\* highest document id handed out in one run of the content specification
MaxDocs == 4
\* videos published in one run of the video specification
MaxVideos == 2
\* views counted per video
MaxViews == 2
\* largest page / limit a listing request names
MaxPage == 2
MaxLimit == 2
\* users registered in one run of the account specification
MaxUsers == 2
\* token pairs signed in one run of the account specification
MaxTokens == 2

\* authenticated principals (ids of User documents)
UserIds == {"u1", "u2"}
\* ids of like targets (videos, comments, tweets)
TargetIds == {"t1", "t2"}
\* the three target fields of a Like document
LikeFields == {"video", "comment", "tweet"}

VARIABLES
  likes,          \* Like collection: set of [id, field, target, likedBy]
  subscriptions,  \* Subscription collection: set of [id, subscriber, channel]
  docSeq,         \* number of documents created so far (fresh _id source)
  toggled,        \* history: completed toggle requests per <<kind, actor, target>>
  videos,         \* Video collection: set of [id, owner, title, views]
  comments,       \* Comment collection: set of [id, owner, video, content]
  tweets,         \* Tweet collection: set of [id, owner, content]
  playlists,      \* Playlist collection: set of [id, owner, name, videos]
  watchhistory,   \* User.watchhistory, per user id: sequence of video ids
  users,          \* User collection (account fields)
  registered,     \* history: <<username, email>> of each successful register request
  tokenSeq,       \* number of token pairs signed so far
  resp,           \* the last request and its response
  nreq,           \* requests served so far
  inflight,       \* per request slot: the handler being run and its locals
  resetTokens,    \* tokenReset collection: set of [id, userId, token]
  issued,         \* history: the refresh tokens signed so far
  resets          \* history: <<token, request, userId>> of each password a
                  \* resetPassword request has replaced

vars == <<likes, subscriptions, docSeq, toggled, videos, comments, tweets,
          playlists,
          watchhistory, users, registered, tokenSeq, resp, nreq,
          inflight, resetTokens, issued, resets>>

\* ------------------------------------------------------- JavaScript values
\* A route parameter or body field is a string; the _id of a mongoose
\* document is an ObjectId object.
Str(x) == [t |-> "string", v |-> x]
Oid(x) == [t |-> "ObjectId", v |-> x]

\* a === b : same type and same value; two objects are === only when they
\* are the same reference, which a fresh document's _id never is.
StrictEquals(a, b) ==
  IF a.t # b.t THEN FALSE
  ELSE IF a.t = "ObjectId" THEN FALSE
  ELSE a.v = b.v

\* req.user is the mongoose User document the auth middleware loaded
\* (handlers call user.save() and req.user.id on it): its _id is an ObjectId.
ReqUserId(u) == Oid(u)

NoResp == [op |-> "none", status |-> 0]

\* Requests the server is running at the same time.  A handler runs until
\* its next await; between two awaits of one request the awaits of another
\* may complete.
Requests == {"r1", "r2"}
Idle == [op |-> "idle", pc |-> "idle"]

\* ================================================================ toggles
ToggleKeys == ((LikeFields \X UserIds) \X TargetIds) \cup
              (({"channel"} \X UserIds) \X UserIds)

\* Like.findOne({<field>: target, likedBy: user._id}): the first match in
\* natural (insertion) order, or none.
LikeFindOne(ls, field, target, u) ==
  {l \in ls : /\ l.field = field /\ l.target = target /\ l.likedBy = u
              /\ \A m \in ls : (m.field = field /\ m.target = target
                                 /\ m.likedBy = u) => l.id <= m.id}

\* The write half of a like toggle: `found` is what findOne returned.  Nothing
\* found: Like.create.  Otherwise like.deleteOne(), which removes the
\* document with that _id (and removes nothing when it is already gone).
\* The tweet variant calls res.status(200).ApiError(..) after the delete,
\* which is not a function: the TypeError is caught and rethrown as a 400.
LikeWriteRereads(ls, found, field, target, u, newId) ==
  IF LikeFindOne(ls, field, target, u) = {}
  THEN [likes |-> ls \cup {[id |-> newId, field |-> field,
                            target |-> target, likedBy |-> u]},
        created |-> TRUE, status |-> 200]
  ELSE [likes |-> ls \ LikeFindOne(ls, field, target, u),
        created |-> FALSE,
        status |-> IF field = "tweet" THEN 400 ELSE 200]
LikeWrite(ls, found, field, target, u, newId) ==
  IF found = {}
  THEN [likes |-> ls \cup {[id |-> newId, field |-> field,
                            target |-> target, likedBy |-> u]},
        created |-> TRUE, status |-> 200]
  ELSE [likes |-> ls \ found,
        created |-> FALSE,
        status |-> IF field = "tweet" THEN 400 ELSE 200]

\* The body of toggleVideoLike / toggleCommentLike / toggleTweetLike after
\* the isValidObjectId guard, run without interruption: find, then create
\* or delete.
ToggleLikeAlwaysCreate(ls, field, target, u, newId) ==
  [likes |-> ls \cup {[id |-> newId, field |-> field, target |-> target,
                       likedBy |-> u]},
   created |-> TRUE, status |-> 200]
ToggleLike(ls, field, target, u, newId) ==
  LikeWrite(ls, LikeFindOne(ls, field, target, u), field, target, u, newId)

Bump(f, k) == [f EXCEPT ![k] = @ + 1]

ToggleLikeReq(field, u, target) ==
  /\ nreq < MaxToggleReqs
  /\ LET r == ToggleLike(likes, field, target, u, docSeq + 1)
     IN /\ likes' = r.likes
        /\ docSeq' = IF r.created THEN docSeq + 1 ELSE docSeq
        /\ resp' = [op |-> "toggleLike", field |-> field, caller |-> u,
                    target |-> target, status |-> r.status,
                    created |-> r.created]
  /\ toggled' = Bump(toggled, <<<<field, u>>, target>>)
  /\ nreq' = nreq + 1
  /\ UNCHANGED <<subscriptions, videos, comments, tweets, playlists,
                 watchhistory, users,
                 registered, tokenSeq, inflight,
                 resetTokens, issued, resets>>

toggleVideoLike == \E u \in UserIds, t \in TargetIds : ToggleLikeReq("video", u, t)
toggleCommentLike == \E u \in UserIds, t \in TargetIds : ToggleLikeReq("comment", u, t)
toggleTweetLike == \E u \in UserIds, t \in TargetIds : ToggleLikeReq("tweet", u, t)

\* A like request whose id parameter is not a valid ObjectId: 400, no query.
toggleLikeInvalidId ==
  /\ nreq < MaxToggleReqs
  /\ \E field \in LikeFields, u \in UserIds :
       resp' = [op |-> "toggleLike", field |-> field, caller |-> u,
                target |-> "invalid", status |-> 400, created |-> FALSE]
  /\ nreq' = nreq + 1
  /\ UNCHANGED <<likes, subscriptions, docSeq, toggled, videos, comments,
                 tweets,
                 playlists, watchhistory, users,
                 registered, tokenSeq, inflight,
                 resetTokens, issued, resets>>

SubFindOne(ss, u, channel) ==
  {s \in ss : /\ s.subscriber = u /\ s.channel = channel
              /\ \A m \in ss : (m.subscriber = u /\ m.channel = channel)
                                  => s.id <= m.id}

\* The write half of toggleSubscription: Subscription.create when findOne
\* returned nothing, subscription.deleteOne() (by _id) otherwise.
SubWrite(ss, found, u, channelId, newId) ==
  IF found = {}
  THEN [subs |-> ss \cup {[id |-> newId, subscriber |-> u,
                           channel |-> channelId]},
        created |-> TRUE, status |-> 200,
        msg |-> "subscription created successfully"]
  ELSE [subs |-> ss \ found, created |-> FALSE, status |-> 200,
        msg |-> "subscription deleted successfully"]

\* toggleSubscription: channelId is the route parameter (a string), user._id
\* the ObjectId of req.user; the two are compared with ===.
ToggleSubscription(ss, u, channelId, newId) ==
  IF StrictEquals(Str(channelId), ReqUserId(u))
  THEN [subs |-> ss, created |-> FALSE, status |-> 400,
        msg |-> "you cannot subscribe to yourself"]
  ELSE SubWrite(ss, SubFindOne(ss, u, channelId), u, channelId, newId)

toggleSubscription ==
  /\ nreq < MaxToggleReqs
  /\ \E u \in UserIds, channelId \in UserIds :
       LET r == ToggleSubscription(subscriptions, u, channelId, docSeq + 1)
       IN /\ subscriptions' = r.subs
          /\ docSeq' = IF r.created THEN docSeq + 1 ELSE docSeq
          /\ resp' = [op |-> "toggleSubscription", caller |-> u,
                      target |-> channelId, status |-> r.status,
                      created |-> r.created, msg |-> r.msg]
          /\ toggled' = IF r.status = 200
                        THEN Bump(toggled, <<<<"channel", u>>, channelId>>)
                        ELSE toggled
  /\ nreq' = nreq + 1
  /\ UNCHANGED <<likes, videos, comments, tweets, playlists, watchhistory,
                 users,
                 registered, tokenSeq, inflight,
                 resetTokens, issued, resets>>

\* ========================================================= comments, playlists
\* isValidObjectId: the id 0 stands for a malformed id string.
isValidObjectId(id) == id # 0

\* bodies a request can carry for a text field: missing/empty, or a text
Texts == {"", "txt"}

FindById(coll, id) == {d \in coll : d.id = id}
OwnerOf(coll, id) ==
  IF FindById(coll, id) = {} THEN "none"
  ELSE (CHOOSE d \in FindById(coll, id) : TRUE).owner

\* addComment: the video id must be well formed and the content non-empty;
\* the video itself is not looked up.
AddComment(cs, u, videoId, content, newId) ==
  IF ~isValidObjectId(videoId)
  THEN [comments |-> cs, status |-> 400, msg |-> "videoId is required"]
  ELSE IF content = ""
  THEN [comments |-> cs, status |-> 400, msg |-> "content is required"]
  ELSE [comments |-> cs \cup {[id |-> newId, owner |-> u, video |-> videoId,
                               content |-> content]},
        status |-> 200, msg |-> "comment created successfully"]

\* deleteComment: comment.owner.toString() !== req.user._id.toString()
DeleteCommentNoOwnerCheck(cs, u, commentId) ==
  IF FindById(cs, commentId) = {}
  THEN [comments |-> cs, status |-> 400, msg |-> "comment not found"]
  ELSE [comments |-> cs \ FindById(cs, commentId), status |-> 200,
        msg |-> "comment deleted successfully"]
DeleteComment(cs, u, commentId) ==
  IF ~isValidObjectId(commentId)
  THEN [comments |-> cs, status |-> 400, msg |-> "commentId is not valid"]
  ELSE IF FindById(cs, commentId) = {}
  THEN [comments |-> cs, status |-> 400, msg |-> "comment not found"]
  ELSE IF OwnerOf(cs, commentId) # u
  THEN [comments |-> cs, status |-> 400,
        msg |-> "you are not the owner of this comment"]
  ELSE [comments |-> cs \ FindById(cs, commentId), status |-> 200,
        msg |-> "comment deleted successfully"]

CreatePlaylist(ps, u, name, description, newId) ==
  IF name = "" \/ description = ""
  THEN [playlists |-> ps, status |-> 400,
        msg |-> "name and description are required"]
  ELSE [playlists |-> ps \cup {[id |-> newId, owner |-> u, name |-> name,
                                description |-> description, videos |-> <<>>]},
        status |-> 201, msg |-> "playlist created successfully"]

\* MongooseArray.includes / push / pull on playlist.videos
Includes(list, x) == \E i \in 1..Len(list) : list[i] = x
Push(list, x) == Append(list, x)
PullKeepsAll(list, x) == list
Pull(list, x) == SelectSeq(list, LAMBDA y : y # x)

VideosIn(ps, playlistId) ==
  IF FindById(ps, playlistId) = {} THEN <<>>
  ELSE (CHOOSE d \in FindById(ps, playlistId) : TRUE).videos

SetVideos(ps, playlistId, list) ==
  {IF d.id = playlistId THEN [d EXCEPT !.videos = list] ELSE d : d \in ps}

AddVideoToPlaylist(ps, vs, videoId, playlistId) ==
  IF ~isValidObjectId(videoId) \/ ~isValidObjectId(playlistId)
  THEN [playlists |-> ps, status |-> 400,
        msg |-> "videoId or playlistId is not valid."]
  ELSE IF FindById(vs, videoId) = {}
  THEN [playlists |-> ps, status |-> 400, msg |-> "Api Error. video not found"]
  ELSE IF FindById(ps, playlistId) = {}
  THEN [playlists |-> ps, status |-> 400,
        msg |-> "Api Error. playlist not found"]
  ELSE IF Includes(VideosIn(ps, playlistId), videoId)
  THEN [playlists |-> ps, status |-> 400,
        msg |-> "Api Error. video already in playlist"]
  ELSE [playlists |-> SetVideos(ps, playlistId,
                                Push(VideosIn(ps, playlistId), videoId)),
        status |-> 200, msg |-> "video added to playlist successfully"]

RemoveVideoFromPlaylist(ps, vs, videoId, playlistId) ==
  IF ~isValidObjectId(videoId) \/ ~isValidObjectId(playlistId)
  THEN [playlists |-> ps, status |-> 400,
        msg |-> "videoId or playlistId is not valid."]
  ELSE IF FindById(vs, videoId) = {}
  THEN [playlists |-> ps, status |-> 400, msg |-> "Api Error. video not found"]
  ELSE IF FindById(ps, playlistId) = {}
  THEN [playlists |-> ps, status |-> 400,
        msg |-> "Api Error. playlist not found"]
  ELSE IF ~Includes(VideosIn(ps, playlistId), videoId)
  THEN [playlists |-> ps, status |-> 400,
        msg |-> "Api Error. video not in playlist"]
  ELSE [playlists |-> SetVideos(ps, playlistId,
                                Pull(VideosIn(ps, playlistId), videoId)),
        status |-> 200, msg |-> "video removed from playlist successfully"]

\* deletePlaylist: 404 when absent, 403 when the caller is not the owner
DeletePlaylist(ps, u, playlistId) ==
  IF ~isValidObjectId(playlistId)
  THEN [playlists |-> ps, status |-> 400, msg |-> "playlistId is not valid."]
  ELSE IF FindById(ps, playlistId) = {}
  THEN [playlists |-> ps, status |-> 404,
        msg |-> "Api Error. playlist not found"]
  ELSE IF OwnerOf(ps, playlistId) # u
  THEN [playlists |-> ps, status |-> 403,
        msg |-> "You are not the owner of this playlist"]
  ELSE [playlists |-> ps \ FindById(ps, playlistId), status |-> 200,
        msg |-> "Playlist deleted successfully"]

\* ids a request can name for a collection: a malformed one (0), the id of
\* each stored document, and a well-formed id no document has (the next one)
IdParams(coll) == {0, docSeq + 1} \cup {d.id : d \in coll}

ContentUnchanged == UNCHANGED <<likes, subscriptions, toggled, videos,
                                watchhistory, users, registered, tokenSeq,
                                nreq, inflight, resetTokens, issued, resets>>

addComment ==
  /\ docSeq < MaxDocs
  /\ \E u \in UserIds, videoId \in {0, 1}, content \in Texts :
       LET r == AddComment(comments, u, videoId, content, docSeq + 1)
       IN /\ comments' = r.comments
          /\ docSeq' = IF r.status = 200 THEN docSeq + 1 ELSE docSeq
          /\ resp' = [op |-> "addComment", caller |-> u, target |-> videoId,
                      status |-> r.status, msg |-> r.msg]
  /\ UNCHANGED <<playlists, tweets>>
  /\ ContentUnchanged

deleteComment ==
  /\ \E u \in UserIds, commentId \in IdParams(comments) :
       LET r == DeleteComment(comments, u, commentId)
       IN /\ comments' = r.comments
          /\ resp' = [op |-> "deleteComment", caller |-> u,
                      target |-> commentId,
                      docOwner |-> OwnerOf(comments, commentId),
                      status |-> r.status, msg |-> r.msg]
  /\ UNCHANGED <<playlists, tweets, docSeq>>
  /\ ContentUnchanged

createPlaylist ==
  /\ docSeq < MaxDocs
  /\ \E u \in UserIds, name \in Texts, description \in Texts :
       LET r == CreatePlaylist(playlists, u, name, description, docSeq + 1)
       IN /\ playlists' = r.playlists
          /\ docSeq' = IF r.status = 201 THEN docSeq + 1 ELSE docSeq
          /\ resp' = [op |-> "createPlaylist", caller |-> u,
                      status |-> r.status, msg |-> r.msg]
  /\ UNCHANGED <<comments, tweets>>
  /\ ContentUnchanged

addVideoToPlaylist ==
  /\ \E u \in UserIds, videoId \in IdParams(videos),
        playlistId \in IdParams(playlists) :
       LET r == AddVideoToPlaylist(playlists, videos, videoId, playlistId)
       IN /\ playlists' = r.playlists
          /\ resp' = [op |-> "addVideoToPlaylist", caller |-> u,
                      video |-> videoId, target |-> playlistId,
                      before |-> VideosIn(playlists, playlistId),
                      status |-> r.status, msg |-> r.msg]
  /\ UNCHANGED <<comments, tweets, docSeq>>
  /\ ContentUnchanged

removeVideoFromPlaylist ==
  /\ \E u \in UserIds, videoId \in IdParams(videos),
        playlistId \in IdParams(playlists) :
       LET r == RemoveVideoFromPlaylist(playlists, videos, videoId, playlistId)
       IN /\ playlists' = r.playlists
          /\ resp' = [op |-> "removeVideoFromPlaylist", caller |-> u,
                      video |-> videoId, target |-> playlistId,
                      before |-> VideosIn(playlists, playlistId),
                      status |-> r.status, msg |-> r.msg]
  /\ UNCHANGED <<comments, tweets, docSeq>>
  /\ ContentUnchanged

deletePlaylist ==
  /\ \E u \in UserIds, playlistId \in IdParams(playlists) :
       LET r == DeletePlaylist(playlists, u, playlistId)
       IN /\ playlists' = r.playlists
          /\ resp' = [op |-> "deletePlaylist", caller |-> u,
                      target |-> playlistId,
                      docOwner |-> OwnerOf(playlists, playlistId),
                      status |-> r.status, msg |-> r.msg]
  /\ UNCHANGED <<comments, tweets, docSeq>>
  /\ ContentUnchanged

\* ================================================================= videos
\* the url of an asset on the media host: its public id and its extension
Asset(pid, ext) == [pid |-> pid, ext |-> ext]

\* Video.create in publishVideo when no thumbnail file is sent: the
\* thumbnail is the url of the uploaded video with .mp4 replaced by .jpg
VideoDoc(id, owner, title, description) ==
  [id |-> id, owner |-> owner, title |-> title, description |-> description,
   views |-> 0, videofile |-> Asset(id, "mp4"), thumbnail |-> Asset(id, "jpg")]

\* request texts: sequences of letters; <<>> is a missing or empty field
Titles == {<<"a">>, <<"A", "b">>}
Descriptions == {<<"b">>}
Queries == {<<"a">>, <<"c">>}

\* a value of req.query: absent (the destructuring default, a number) or the
\* string the client sent
Absent == [t |-> "undefined", v |-> 0]
Num(x) == [t |-> "number", v |-> x]
DefaultPage == 1
DefaultLimit == 10
PageOf(p) == IF p.t = "undefined" THEN Num(DefaultPage) ELSE p
LimitOf(l) == IF l.t = "undefined" THEN Num(DefaultLimit) ELSE l

Min(a, b) == IF a < b THEN a ELSE b
Max(a, b) == IF a > b THEN a ELSE b

Lower(c) == IF c = "A" THEN "a" ELSE IF c = "B" THEN "b"
            ELSE IF c = "C" THEN "c" ELSE c
LowerAll(text) == [i \in 1..Len(text) |-> Lower(text[i])]

\* {$regex: query, $options: "i"} for a query of plain letters
RegexMatchI(text, query) ==
  \E i \in 1..(Len(text) - Len(query) + 1) :
    SubSeq(LowerAll(text), i, i + Len(query) - 1) = LowerAll(query)

\* the collection in natural order (ascending _id), as a sequence of ids
RECURSIVE NaturalOrder(_)
NaturalOrder(ids) ==
  IF ids = {} THEN <<>>
  ELSE LET m == CHOOSE x \in ids : \A y \in ids : x <= y
       IN <<m>> \o NaturalOrder(ids \ {m})

VideoById(vs, id) == CHOOSE d \in vs : d.id = id

\* $match stage pushed when query is given
MatchStage(vs, query) ==
  IF query = <<>> THEN NaturalOrder({d.id : d \in vs})
  ELSE NaturalOrder({d.id : d \in {x \in vs :
                        \/ RegexMatchI(x.title, query)
                        \/ RegexMatchI(x.description, query)}})

\* $sort stage: the orders {sortBy: 1 | -1} allows; documents with equal
\* keys may come in either order
Orderings(list) ==
  {p \in [1..Len(list) -> {list[i] : i \in 1..Len(list)}] :
     \A i, j \in 1..Len(list) : i # j => p[i] # p[j]}
SortStage(vs, list, sortBy, sortType) ==
  IF sortBy = "" \/ sortType = "" THEN {list}
  ELSE {p \in Orderings(list) :
          \A i, j \in 1..Len(p) : i < j =>
            IF sortType = "desc"
            THEN VideoById(vs, p[i]).views >= VideoById(vs, p[j]).views
            ELSE VideoById(vs, p[i]).views <= VideoById(vs, p[j]).views}

\* $facet: {paginatedResults: [$skip, $limit], totalCount: [$count]}.
\* limit * (page - 1) converts both operands to numbers; $limit receives the
\* value of limit as it is and the server accepts only a positive number;
\* $count emits no document for an empty input, so totalCount[0]?.count is
\* undefined then.
FacetStage(list, page, limit) ==
  LET skip == limit.v * (page.v - 1)
  IN IF limit.t # "number" \/ limit.v <= 0 \/ skip < 0
     THEN [ok |-> FALSE, paginatedResults |-> <<>>, totalCount |-> Absent]
     ELSE [ok |-> TRUE,
           paginatedResults |-> SubSeq(list, skip + 1,
                                       Min(Len(list), skip + limit.v)),
           totalCount |-> IF list = <<>> THEN Absent ELSE Num(Len(list))]

\* publishVideo: req.files.videofile[0] is read first (a TypeError when no
\* video file was sent), then title and description are required, then the
\* upload must succeed.  views is not set: the schema default applies.
PublishVideo(vs, u, title, description, hasFile, uploaded, newId) ==
  IF ~hasFile
  THEN [videos |-> vs, status |-> 500, msg |-> "TypeError"]
  ELSE IF title = <<>> \/ description = <<>>
  THEN [videos |-> vs, status |-> 400,
        msg |-> "title and description are required"]
  ELSE IF ~uploaded
  THEN [videos |-> vs, status |-> 400, msg |-> "API error. file not uploaded"]
  ELSE [videos |-> vs \cup {VideoDoc(newId, u, title, description)},
        status |-> 200, msg |-> "video uploaded - TEST RUN"]

\* JavaScript strings as sequences of tokens: the 24 hex digits of an id are
\* one token, the separator "," another.
HexToken(id) == <<"hex", id>>
CommaToken == <<"sep", 0>>
RECURSIVE ArrayToString(_)
ArrayToString(list) ==
  IF list = <<>> THEN <<>>
  ELSE IF Len(list) = 1 THEN <<HexToken(list[1])>>
  ELSE <<HexToken(list[1]), CommaToken>> \o ArrayToString(Tail(list))

\* user.watchhistory += [videoId]: both arrays are converted to strings and
\* concatenated
PlusAssign(list, videoId) == ArrayToString(list) \o ArrayToString(<<videoId>>)

\* assigning a string to the [ObjectId] path: the value is wrapped into a
\* one-element array and the element cast to ObjectId, which needs exactly 24
\* hex digits; a failed cast leaves the path as it was
CastToIdArray(str, old) ==
  IF Len(str) = 1 /\ str[1][1] = "hex" THEN <<str[1][2]>> ELSE old

SetViews(vs, id, n) ==
  {IF d.id = id THEN [d EXCEPT !.views = n] ELSE d : d \in vs}

\* getVideoById
GetVideoById(vs, hist, videoId) ==
  IF ~isValidObjectId(videoId)
  THEN [videos |-> vs, hist |-> hist, status |-> 500, msg |-> "CastError"]
  ELSE IF ~Includes(hist, videoId)
  THEN IF FindById(vs, videoId) = {}
       THEN [videos |-> vs, hist |-> hist, status |-> 500, msg |-> "TypeError"]
       ELSE [videos |-> SetViews(vs, videoId, VideoById(vs, videoId).views + 1),
             hist |-> CastToIdArray(PlusAssign(hist, videoId), hist),
             status |-> 200, msg |-> "video fetched"]
  ELSE IF FindById(vs, videoId) = {}
       THEN [videos |-> vs, hist |-> hist, status |-> 400,
             msg |-> "something went wrong"]
       ELSE [videos |-> vs, hist |-> hist, status |-> 200, msg |-> "video fetched"]

VideoUnchanged == UNCHANGED <<likes, subscriptions, toggled, comments, tweets,
                              playlists, users, registered, tokenSeq, nreq,
                              inflight, resetTokens, issued, resets>>

publishVideo ==
  /\ docSeq < MaxVideos
  /\ \E u \in UserIds, title \in Titles \cup {<<>>},
        description \in Descriptions \cup {<<>>},
        hasFile \in BOOLEAN, uploaded \in BOOLEAN :
       LET r == PublishVideo(videos, u, title, description, hasFile, uploaded,
                             docSeq + 1)
       IN /\ videos' = r.videos
          /\ docSeq' = IF r.status = 200 THEN docSeq + 1 ELSE docSeq
          /\ resp' = [op |-> "publishVideo", caller |-> u,
                      status |-> r.status, msg |-> r.msg]
  /\ UNCHANGED watchhistory
  /\ VideoUnchanged

getVideoById ==
  /\ \E u \in UserIds, videoId \in IdParams(videos) :
       LET r == GetVideoById(videos, watchhistory[u], videoId)
       IN /\ \A d \in r.videos : d.views <= MaxViews
          /\ videos' = r.videos
          /\ watchhistory' = [watchhistory EXCEPT ![u] = r.hist]
          /\ resp' = [op |-> "getVideoById", caller |-> u, target |-> videoId,
                      status |-> r.status, msg |-> r.msg]
  /\ UNCHANGED docSeq
  /\ VideoUnchanged

PageParams == {Absent} \cup {Str(n) : n \in 1..MaxPage}
LimitParams == {Absent} \cup {Str(n) : n \in 1..MaxLimit}

getAllVideos ==
  /\ \E page \in PageParams, limit \in LimitParams,
        query \in Queries \cup {<<>>},
        sortBy \in {"", "views"}, sortType \in {"", "asc", "desc"} :
       \E sorted \in SortStage(videos, MatchStage(videos, query),
                               sortBy, sortType) :
         LET r == FacetStage(sorted, PageOf(page), LimitOf(limit))
         IN resp' = [op |-> "getAllVideos", page |-> page, limit |-> limit,
                     matched |-> sorted,
                     status |-> IF r.ok THEN 200 ELSE 500,
                     paginatedResults |-> r.paginatedResults,
                     totalCount |-> r.totalCount]
  /\ UNCHANGED <<videos, watchhistory, docSeq>>
  /\ VideoUnchanged

\* =============================================================== accounts
\* request values; "" is a field that is missing or blank after trim()
Usernames == {"alice", "Alice", "bob"}
Emails == {"a@x", "b@x"}
Passwords == {"pw1", "pw2"}

\* String.prototype.toLowerCase on the usernames above
ToLowerCase(name) == IF name = "Alice" THEN "alice" ELSE name

\* the User schema hashes the password before it is stored and compares a
\* candidate against the stored hash
Hash(pw) == <<"hash", pw>>
IsPasswordCorrect(stored, pw) == stored = Hash(pw)

\* the unique indexes on User.username and User.email: would writing these
\* values to the document selfId collide with another document?
DuplicateKey(us, selfId, username, email) ==
  \E x \in us : x.id # selfId /\ (x.username = username \/ x.email = email)

\* Refresh tokens.  user.generateRefreshToken() signs the user's _id; the
\* serial number stands for the moment of signing.  NoToken is the value of
\* a refreshToken field that is unset or null, and of a request that carries
\* no token; Undefined is the value of a variable that was never bound.
NoToken == <<"none", 0, 0>>
Undefined == <<"undefined", 0, 0>>
GenerateRefreshToken(id, serial) == <<"refresh", id, serial>>

\* generateAccessAndRefreshTokens(userId): sign both tokens, store the
\* refresh token on the user, return {accessToken, refreshToken}
GenerateAccessAndRefreshTokens(us, id, serial) ==
  [users |-> {IF x.id = id
              THEN [x EXCEPT !.refreshToken = GenerateRefreshToken(id, serial)]
              ELSE x : x \in us},
   tokens |-> [accessToken |-> <<"access", id, serial>>,
               refreshToken |-> GenerateRefreshToken(id, serial)]]

\* const {a, b} = obj: a name obj does not have is bound to undefined
Destructure(obj, name) ==
  IF name \in DOMAIN obj THEN obj[name] ELSE Undefined

UserFields == {"_id", "username", "email", "fullname", "avatar", "coverimage",
               "watchhistory", "password", "refreshToken"}
\* .select("-a -b"): the document without the named fields
Select(fields, excluded) == fields \ excluded
\* the $project stage of getChannelProfile
ChannelProjection == {"_id", "fullname", "username", "avatar", "coverimage",
                      "subscribersCount", "channelSubscribedToCount",
                      "isSubscribed"}

UserById(us, id) == CHOOSE x \in us : x.id = id

\* the first document, in natural order, among the matches of a findOne
First(matches) ==
  {x \in matches : \A y \in matches : x.id <= y.id}

\* RegisterUser from the avatar on: req.files.avatar[0] is read without a
\* guard (TypeError), the upload must succeed, then User.create stores the
\* lower-cased username; the unique indexes reject a duplicate.
RegisterCreateSwallowsError(us, username, email, hasAvatar, uploaded, newId) ==
  IF ~hasAvatar
  THEN [users |-> us, status |-> 500, msg |-> "TypeError", fields |-> {}]
  ELSE IF ~uploaded
  THEN [users |-> us, status |-> 400, msg |-> "avatar image is not uploaded",
        fields |-> {}]
  ELSE IF DuplicateKey(us, newId, ToLowerCase(username), email)
  THEN [users |-> us, status |-> 201, msg |-> "user created successfully",
        fields |-> Select(UserFields, {"password", "refreshToken"})]
  ELSE [users |-> us \cup {[id |-> newId, username |-> ToLowerCase(username),
                            email |-> email, password |-> Hash("pw1"),
                            avatar |-> "url", coverimage |-> "",
                            refreshToken |-> NoToken]},
        status |-> 201, msg |-> "user created successfully",
        fields |-> Select(UserFields, {"password", "refreshToken"})]
RegisterCreate(us, username, email, hasAvatar, uploaded, newId) ==
  IF ~hasAvatar
  THEN [users |-> us, status |-> 500, msg |-> "TypeError", fields |-> {}]
  ELSE IF ~uploaded
  THEN [users |-> us, status |-> 400, msg |-> "avatar image is not uploaded",
        fields |-> {}]
  ELSE IF DuplicateKey(us, newId, ToLowerCase(username), email)
  THEN [users |-> us, status |-> 500, msg |-> "duplicate key", fields |-> {}]
  ELSE [users |-> us \cup {[id |-> newId, username |-> ToLowerCase(username),
                            email |-> email, password |-> Hash("pw1"),
                            avatar |-> "url", coverimage |-> "",
                            refreshToken |-> NoToken]},
        status |-> 201, msg |-> "user created successfully",
        fields |-> Select(UserFields, {"password", "refreshToken"})]

\* RegisterUser up to the findOne guard: the error response, or none (0)
RegisterGuard(us, username, email, othersGiven) ==
  IF username = "" \/ email = "" \/ ~othersGiven
  THEN [users |-> us, status |-> 400, msg |-> "All fields are required",
        fields |-> {}]
  ELSE IF \E x \in us : x.username = username \/ x.email = email
  THEN [users |-> us, status |-> 409, msg |-> "User already exists",
        fields |-> {}]
  ELSE [users |-> us, status |-> 0, msg |-> "", fields |-> {}]

\* RegisterUser.  body: username, email and whether fullname and password
\* are non-blank; files: whether an avatar was sent and whether its upload
\* succeeded.
RegisterUser(us, username, email, othersGiven, hasAvatar, uploaded, newId) ==
  IF RegisterGuard(us, username, email, othersGiven).status # 0
  THEN RegisterGuard(us, username, email, othersGiven)
  ELSE RegisterCreate(us, username, email, hasAvatar, uploaded, newId)

\* loginUser.  email / username / password: "" when the body lacks them.
\* generateAccessAndRefreshTokens signs a pair and stores the refresh token.
LoginUser(us, email, username, password, newToken) ==
  IF email # "" /\ username # ""
  THEN [users |-> us, status |-> 400, issued |-> FALSE,
        msg |-> "provide either email or username", fields |-> {},
        refreshToken |-> NoToken]
  ELSE IF password = ""
  THEN [users |-> us, status |-> 400, issued |-> FALSE,
        msg |-> "password is required", fields |-> {},
        refreshToken |-> NoToken]
  ELSE LET found == First({x \in us : \/ (email # "" /\ x.email = email)
                                     \/ (username # "" /\ x.username = username)})
       IN IF found = {}
          THEN [users |-> us, status |-> 404, issued |-> FALSE,
                msg |-> "user not found", fields |-> {},
                refreshToken |-> NoToken]
          ELSE LET user == CHOOSE x \in found : TRUE
                   g == GenerateAccessAndRefreshTokens(us, user.id, newToken)
               IN IF ~IsPasswordCorrect(user.password, password)
                  THEN [users |-> us, status |-> 401, issued |-> FALSE,
                        msg |-> "password is incorrect", fields |-> {},
                        refreshToken |-> NoToken]
                  ELSE [users |-> g.users,
                        status |-> 200, issued |-> TRUE,
                        msg |-> "user logged in successfully",
                        fields |-> Select(UserFields,
                                          {"password", "refreshToken"}),
                        refreshToken |-> Destructure(g.tokens, "refreshToken")]

\* the cast of a value written to User.username: the User schema declares
\* the path unique and names no setter, the value is stored as given
CastUsername(name) == name

\* updateAccountDetails: $set of the given fields (keys that are undefined
\* are dropped from the update), answered with .select("-password")
UpdateAccountDetails(us, u, username, email) ==
  IF username = "" /\ email = ""
  THEN [users |-> us, status |-> 404, msg |-> "username or email is required",
        fields |-> {}]
  ELSE LET old == UserById(us, u)
           new == [old EXCEPT
                     !.username = IF username = "" THEN @
                                  ELSE CastUsername(username),
                     !.email = IF email = "" THEN @ ELSE email]
       IN IF DuplicateKey(us, u, new.username, new.email)
          THEN [users |-> us, status |-> 500, msg |-> "duplicate key",
                fields |-> {}]
          ELSE [users |-> (us \ {old}) \cup {new}, status |-> 200,
                msg |-> "account details updated successfully",
                fields |-> Select(UserFields, {"password"})]

\* The media host.  "url" is the url of an asset uploaded by the request at
\* hand, "url0" that of an asset uploaded before the behaviour starts.
\* The calls a handler makes to the media host, in the order it makes them:
\* <<"upload", succeeded>> for uploadToCloudinary (which returns null when
\* the upload failed) and <<"destroy", what>> for deleteFromCloudinary.
Upload(ok) == <<"upload", ok>>
Destroy(what) == <<"destroy", what>>

\* updateAvatar / updateCoverPhoto: req.file.path and the upload's .url are
\* read without a guard (a TypeError when the file is missing or the upload
\* returned null); then the old asset is deleted and the new url stored.
\* updateAvatar answers with .select("-password"), updateCoverPhoto with
\* the whole document.
UpdateAvatarDeletesFirst(us, u, hasFile, uploaded) ==
  IF ~hasFile
  THEN [users |-> us, status |-> 500, msg |-> "TypeError", fields |-> {},
        remote |-> <<>>]
  ELSE IF ~uploaded
  THEN [users |-> us, status |-> 500, msg |-> "TypeError", fields |-> {},
        remote |-> <<Destroy(UserById(us, u).avatar), Upload(FALSE)>>]
  ELSE [users |-> (us \ {UserById(us, u)}) \cup
                  {[UserById(us, u) EXCEPT !.avatar = "url"]},
        status |-> 200, msg |-> "avatar updated successfully",
        fields |-> Select(UserFields, {"password"}),
        remote |-> <<Destroy(UserById(us, u).avatar), Upload(TRUE)>>]
UpdateAvatar(us, u, hasFile, uploaded) ==
  IF ~hasFile
  THEN [users |-> us, status |-> 500, msg |-> "TypeError", fields |-> {},
        remote |-> <<>>]
  ELSE IF ~uploaded
  THEN [users |-> us, status |-> 500, msg |-> "TypeError", fields |-> {},
        remote |-> <<Upload(FALSE)>>]
  ELSE [users |-> (us \ {UserById(us, u)}) \cup
                  {[UserById(us, u) EXCEPT !.avatar = "url"]},
        status |-> 200, msg |-> "avatar updated successfully",
        fields |-> Select(UserFields, {"password"}),
        remote |-> <<Upload(TRUE), Destroy(UserById(us, u).avatar)>>]

UpdateCoverPhoto(us, u, hasFile, uploaded) ==
  IF ~hasFile
  THEN [users |-> us, status |-> 500, msg |-> "TypeError", fields |-> {},
        remote |-> <<>>]
  ELSE IF ~uploaded
  THEN [users |-> us, status |-> 500, msg |-> "TypeError", fields |-> {},
        remote |-> <<Upload(FALSE)>>]
  ELSE [users |-> (us \ {UserById(us, u)}) \cup
                  {[UserById(us, u) EXCEPT !.coverimage = "url"]},
        status |-> 200, msg |-> "cover image updated successfully",
        fields |-> UserFields,
        remote |-> <<Upload(TRUE), Destroy(UserById(us, u).coverimage)>>]

\* $lookup {from: "subscriptions", localField: "_id", foreignField}: the
\* Subscription documents whose foreignField is the channel's _id
Lookup(ss, foreignField, id) ==
  {s \in ss : (IF foreignField = "channel" THEN s.channel
                                           ELSE s.subscriber) = id}

\* getChannelProfile: $match on the lower-cased name, two $lookup, the
\* $addFields with both $size and the $in test, $project; the response
\* carries channel[0], the one user of that name (username is unique)
GetChannelProfileCountsOwnRows(us, ss, caller, username) ==
  IF username = ""
  THEN [status |-> 400, msg |-> "username is required", fields |-> {}]
  ELSE IF {x \in us : x.username = ToLowerCase(username)} = {}
  THEN [status |-> 404, msg |-> "channel not found", fields |-> {}]
  ELSE LET channel == CHOOSE x \in us : x.username = ToLowerCase(username)
           subscribers == Lookup(ss, "subscriber", channel.id)
           subscribedTo == Lookup(ss, "subscriber", channel.id)
       IN [status |-> 200, msg |-> "channel profile fetched successfully",
           fields |-> ChannelProjection,
           subscribersCount |-> Cardinality(subscribers),
           channelSubscribedToCount |-> Cardinality(subscribedTo),
           isSubscribed |-> caller \in {s.subscriber : s \in subscribers}]

GetChannelProfile(us, ss, caller, username) ==
  IF username = ""
  THEN [status |-> 400, msg |-> "username is required", fields |-> {}]
  ELSE IF {x \in us : x.username = ToLowerCase(username)} = {}
  THEN [status |-> 404, msg |-> "channel not found", fields |-> {}]
  ELSE LET channel == CHOOSE x \in us : x.username = ToLowerCase(username)
           subscribers == Lookup(ss, "channel", channel.id)
           subscribedTo == Lookup(ss, "subscriber", channel.id)
       IN [status |-> 200, msg |-> "channel profile fetched successfully",
           fields |-> ChannelProjection,
           subscribersCount |-> Cardinality(subscribers),
           channelSubscribedToCount |-> Cardinality(subscribedTo),
           isSubscribed |-> caller \in {s.subscriber : s \in subscribers}]

\* getWatchHistory: $match on the caller's _id and one $lookup that adds
\* watchHistory; no $project follows, the whole User document is returned.
GetWatchHistory(us, u) ==
  [status |-> 200, msg |-> "watch history fetched successfully",
   fields |-> UserFields \cup {"watchHistory"}]

UserUnchanged == UNCHANGED <<likes, subscriptions, toggled, videos, comments, tweets,
                             playlists, watchhistory, nreq, inflight,
                             resetTokens>>

\* the principals the auth middleware lets through: stored users
Authenticated == {x.id : x \in users}

registerUser ==
  /\ docSeq < MaxUsers
  /\ \E username \in Usernames \cup {""}, email \in Emails \cup {""},
        othersGiven \in BOOLEAN, hasAvatar \in BOOLEAN, uploaded \in BOOLEAN :
       LET r == RegisterUser(users, username, email, othersGiven, hasAvatar,
                             uploaded, docSeq + 1)
       IN /\ users' = r.users
          /\ docSeq' = IF r.status = 201 THEN docSeq + 1 ELSE docSeq
          /\ registered' = IF r.status = 201
                           THEN registered \cup {<<username, email>>}
                           ELSE registered
          /\ resp' = [op |-> "RegisterUser", username |-> username,
                      email |-> email, othersGiven |-> othersGiven,
                      status |-> r.status, msg |-> r.msg, fields |-> r.fields]
  /\ UNCHANGED <<tokenSeq, issued, resets>>
  /\ UserUnchanged

loginUser ==
  /\ tokenSeq < MaxTokens
  /\ \E email \in Emails \cup {""}, username \in Usernames \cup {""},
        password \in Passwords \cup {""} :
       LET r == LoginUser(users, email, username, password, tokenSeq + 1)
       IN /\ users' = r.users
          /\ tokenSeq' = IF r.issued THEN tokenSeq + 1 ELSE tokenSeq
          /\ resp' = [op |-> "loginUser", username |-> username,
                      email |-> email, password |-> password,
                      status |-> r.status, msg |-> r.msg, fields |-> r.fields,
                      issued |-> r.issued, refreshToken |-> r.refreshToken]
          /\ issued' = IF r.issued THEN issued \cup {r.refreshToken}
                       ELSE issued
  /\ UNCHANGED <<docSeq, registered, resets>>
  /\ UserUnchanged

updateAccountDetails ==
  /\ \E u \in Authenticated, username \in {"", "Alice"}, email \in {"", "b@x"} :
       LET r == UpdateAccountDetails(users, u, username, email)
       IN /\ users' = r.users
          /\ resp' = [op |-> "updateAccountDetails", caller |-> u,
                      status |-> r.status, msg |-> r.msg, fields |-> r.fields]
  /\ UNCHANGED <<docSeq, registered, tokenSeq, issued, resets>>
  /\ UserUnchanged

updateAvatar ==
  /\ \E u \in Authenticated, hasFile \in BOOLEAN, uploaded \in BOOLEAN :
       LET r == UpdateAvatar(users, u, hasFile, uploaded)
       IN /\ users' = r.users
          /\ resp' = [op |-> "updateAvatar", caller |-> u,
                      status |-> r.status, msg |-> r.msg, fields |-> r.fields,
                      remote |-> r.remote]
  /\ UNCHANGED <<docSeq, registered, tokenSeq, issued, resets>>
  /\ UserUnchanged

updateCoverPhoto ==
  /\ \E u \in Authenticated, hasFile \in BOOLEAN, uploaded \in BOOLEAN :
       LET r == UpdateCoverPhoto(users, u, hasFile, uploaded)
       IN /\ users' = r.users
          /\ resp' = [op |-> "updateCoverPhoto", caller |-> u,
                      status |-> r.status, msg |-> r.msg, fields |-> r.fields,
                      remote |-> r.remote]
  /\ UNCHANGED <<docSeq, registered, tokenSeq, issued, resets>>
  /\ UserUnchanged

getChannelProfile ==
  /\ \E u \in Authenticated, username \in Usernames \cup {""} :
       LET r == GetChannelProfile(users, subscriptions, u, username)
       IN resp' = [op |-> "getChannelProfile", caller |-> u,
                   username |-> username,
                   status |-> r.status, msg |-> r.msg, fields |-> r.fields,
                   profile |-> IF r.status = 200
                               THEN <<r.subscribersCount,
                                      r.channelSubscribedToCount,
                                      r.isSubscribed>>
                               ELSE <<>>]
  /\ UNCHANGED <<users, docSeq, registered, tokenSeq, issued, resets>>
  /\ UserUnchanged

getWatchHistory ==
  /\ \E u \in Authenticated :
       LET r == GetWatchHistory(users, u)
       IN resp' = [op |-> "getWatchHistory", caller |-> u,
                   status |-> r.status, msg |-> r.msg, fields |-> r.fields]
  /\ UNCHANGED <<users, docSeq, registered, tokenSeq, issued, resets>>
  /\ UserUnchanged

\* ------------------------------------------------------------------ Init
Init ==
  /\ likes = {}
  /\ subscriptions = {}
  /\ docSeq = 0
  /\ toggled = [k \in ToggleKeys |-> 0]
  /\ videos = {}
  /\ comments = {}
  /\ tweets = {}
  /\ playlists = {}
  /\ watchhistory = [u \in UserIds |-> <<>>]
  /\ users = {}
  /\ registered = {}
  /\ tokenSeq = 0
  /\ resp = NoResp
  /\ nreq = 0
  /\ inflight = [r \in Requests |-> Idle]
  /\ resetTokens = {}
  /\ issued = {}
  /\ resets = {}

\* The content specification starts from a store that already holds two
\* published videos, one per user (ids 1 and 2), and an empty playlist that
\* u1 created (id 3).
InitContent ==
  /\ likes = {}
  /\ subscriptions = {}
  /\ docSeq = 3
  /\ toggled = [k \in ToggleKeys |-> 0]
  /\ videos = {VideoDoc(1, "u1", <<"a">>, <<"b">>),
               VideoDoc(2, "u2", <<"b">>, <<"a">>)}
  /\ comments = {}
  /\ tweets = {}
  /\ playlists = {[id |-> 3, owner |-> "u1", name |-> "txt",
                   description |-> "txt", videos |-> <<>>]}
  /\ watchhistory = [u \in UserIds |-> <<>>]
  /\ users = {}
  /\ registered = {}
  /\ tokenSeq = 0
  /\ resp = NoResp
  /\ nreq = 0
  /\ inflight = [r \in Requests |-> Idle]
  /\ resetTokens = {}
  /\ issued = {}
  /\ resets = {}

NextToggle ==
  \/ toggleVideoLike
  \/ toggleCommentLike
  \/ toggleTweetLike
  \/ toggleLikeInvalidId
  \/ toggleSubscription

SpecToggle == Init /\ [][NextToggle]_vars

NextContent ==
  \/ addComment
  \/ deleteComment
  \/ createPlaylist
  \/ addVideoToPlaylist
  \/ removeVideoFromPlaylist
  \/ deletePlaylist

SpecContent == InitContent /\ [][NextContent]_vars

NextVideo ==
  \/ publishVideo
  \/ getVideoById
  \/ getAllVideos

SpecVideo == Init /\ [][NextVideo]_vars

NextUser ==
  \/ registerUser
  \/ loginUser
  \/ updateAccountDetails
  \/ updateAvatar
  \/ updateCoverPhoto
  \/ getChannelProfile
  \/ getWatchHistory

SpecUser == Init /\ [][NextUser]_vars

\* ------------------------------------------------------------- relations
LikePresent(field, u, t) ==
  \E l \in likes : l.field = field /\ l.target = t /\ l.likedBy = u
SubPresent(u, c) ==
  \E s \in subscriptions : s.subscriber = u /\ s.channel = c

\* C1: after n toggle requests for (actor, target), served one after
\* another from a store without the relation, the relation is present
\* exactly when n is odd.
C1_ToggleParity ==
  /\ \A f \in LikeFields, u \in UserIds, t \in TargetIds :
       LikePresent(f, u, t) <=> (toggled[<<<<f, u>>, t>>] % 2 = 1)
  /\ \A u \in UserIds, c \in UserIds :
       SubPresent(u, c) <=> (toggled[<<<<"channel", u>>, c>>] % 2 = 1)

\* three toggles of one pair leave it present, next to a pair toggled twice
C1_Witness ==
  /\ \E f \in LikeFields, u \in UserIds, t \in TargetIds :
       toggled[<<<<f, u>>, t>>] = 3 /\ LikePresent(f, u, t)
  /\ resp.op = "toggleLike"

\* C2: a toggleSubscription request whose channelId is the caller's own id
\* fails with 400 and no Subscription has subscriber = channel.
C2_NoSelfSubscription ==
  /\ (resp.op = "toggleSubscription" /\ resp.target = resp.caller)
        => (resp.status = 400 /\ ~resp.created)
  /\ \A s \in subscriptions : s.subscriber # s.channel

\* C3: deleteComment / deletePlaylist remove the addressed document only
\* when the caller is its recorded owner; a delete request by anyone else
\* leaves both collections unchanged.
C3_DeleteOnlyByOwner ==
  [][/\ (resp'.op = "deleteComment" /\ comments' # comments)
          => /\ OwnerOf(comments, resp'.target) = resp'.caller
             /\ comments' = comments \ FindById(comments, resp'.target)
     /\ (resp'.op = "deletePlaylist" /\ playlists' # playlists)
          => /\ OwnerOf(playlists, resp'.target) = resp'.caller
             /\ playlists' = playlists \ FindById(playlists, resp'.target)
     /\ (/\ resp'.op = "deleteComment"
         /\ OwnerOf(comments, resp'.target) # resp'.caller)
          => (comments' = comments /\ playlists' = playlists)
     /\ (/\ resp'.op = "deletePlaylist"
         /\ OwnerOf(playlists, resp'.target) # resp'.caller)
          => (comments' = comments /\ playlists' = playlists)]_vars

\* a user who is not the owner has just asked for an existing comment to be
\* deleted, next to a playlist owned by someone else
C3_Witness ==
  /\ resp.op = "deleteComment"
  /\ resp.docOwner \notin {"none", resp.caller}
  /\ FindById(comments, resp.target) # {}
  /\ \E pl \in playlists : pl.owner # resp.caller

\* C4: every caller of deleteComment / deletePlaylist who is not the
\* recorded owner of the addressed document is answered with status 403.
C4_NonOwnerGets403 ==
  (/\ resp.op \in {"deleteComment", "deletePlaylist"}
   /\ resp.docOwner \notin {"none", resp.caller})
     => resp.status = 403

\* C10: addVideoToPlaylist appends an absent video and rejects a present one
\* with 'already in playlist'; removeVideoFromPlaylist removes a present
\* video and rejects an absent one; a successful add followed by the remove
\* of the same video restores the list the add started from.
WithoutOne(list, x, after) ==
  \E i \in 1..Len(list) :
    /\ list[i] = x
    /\ after = SubSeq(list, 1, i - 1) \o SubSeq(list, i + 1, Len(list))

C10_PlaylistAddRemove ==
  [][LET r == resp'
         old == VideosIn(playlists, r.target)
         new == VideosIn(playlists', r.target)
         addressed == /\ FindById(videos, r.video) # {}
                      /\ FindById(playlists, r.target) # {}
     IN /\ (r.op = "addVideoToPlaylist" /\ addressed)
             => IF ~Includes(old, r.video)
                THEN r.status = 200 /\ new = old \o <<r.video>>
                ELSE /\ r.status = 400
                     /\ r.msg = "Api Error. video already in playlist"
                     /\ new = old
        /\ (r.op = "removeVideoFromPlaylist" /\ addressed)
             => IF Includes(old, r.video)
                THEN /\ r.status = 200
                     /\ WithoutOne(old, r.video, new)
                     /\ ~Includes(new, r.video)
                ELSE r.status = 400 /\ new = old
        /\ (/\ r.op = "removeVideoFromPlaylist" /\ r.status = 200
            /\ resp.op = "addVideoToPlaylist" /\ resp.status = 200
            /\ resp.video = r.video /\ resp.target = r.target)
             => new = resp.before
        /\ (r.op \in {"addVideoToPlaylist", "removeVideoFromPlaylist"})
             => \A pl \in playlists : pl.id # r.target => pl \in playlists'
    ]_vars

\* the scenario's end: V was added to a playlist, the second add was
\* refused, and the remove has just emptied a list that holds another video
C10_Witness ==
  /\ resp.op = "removeVideoFromPlaylist"
  /\ resp.status = 200
  /\ Len(resp.before) = 2
  /\ VideosIn(playlists, resp.target) = <<resp.before[1]>>
  /\ resp.video = resp.before[2]

\* C5: getAllVideos with page p >= 1 and limit L >= 1 given in the query
\* string answers with the items at positions (p-1)*L+1 .. min(p*L, N) of
\* the N matched (sorted) videos and with totalCount = N, for every N >= 0.
C5_Pagination ==
  (/\ resp.op = "getAllVideos"
   /\ resp.page.t = "string" /\ resp.limit.t = "string")
    => LET p == resp.page.v
           L == resp.limit.v
           N == Len(resp.matched)
       IN /\ resp.status = 200
          /\ resp.paginatedResults
               = SubSeq(resp.matched, (p - 1) * L + 1, Min(p * L, N))
          /\ Len(resp.paginatedResults) = Min(L, Max(0, N - (p - 1) * L))
          /\ resp.totalCount = Num(N)

\* C6: every getVideoById of an existing video v by user u leaves v in u's
\* watch history exactly once, raises v's view count by 1 exactly when it
\* appends v to the history (by 0 otherwise), and keeps the videos u viewed
\* before.
CountIn(list, x) == Cardinality({i \in 1..Len(list) : list[i] = x})

C6_WatchHistoryIdempotent ==
  [][(resp'.op = "getVideoById" /\ FindById(videos, resp'.target) # {})
       => LET u == resp'.caller
              v == resp'.target
              old == watchhistory[u]
              new == watchhistory'[u]
              delta == VideoById(videos', v).views - VideoById(videos, v).views
          IN /\ delta = IF new = Append(old, v) THEN 1 ELSE 0
             /\ CountIn(new, v) = 1
             /\ Len(new) >= Len(old) /\ SubSeq(new, 1, Len(old)) = old
    ]_vars

\* C7: once a register request with username n and email e has succeeded,
\* every later register request with the same n or the same e fails with
\* 409 and leaves the User collection unchanged.  (Stated for later requests
\* whose four fields are all non-blank.)
C7_DuplicateRegisterConflicts ==
  [][(/\ resp'.op = "RegisterUser"
      /\ resp'.username # "" /\ resp'.email # "" /\ resp'.othersGiven
      /\ \E ne \in registered :
           ne[1] = resp'.username \/ ne[2] = resp'.email)
       => (resp'.status = 409 /\ users' = users)
    ]_vars

\* C8: no response of an account handler carries the password field of a
\* User document.
AccountHandlers == {"RegisterUser", "loginUser", "updateAccountDetails",
                    "updateAvatar", "updateCoverPhoto", "getChannelProfile",
                    "getWatchHistory"}
C8_PasswordNeverReturned ==
  resp.op \in AccountHandlers => "password" \notin resp.fields

\* C9: loginUser fails with 400 whenever both email and username are
\* supplied and whenever neither is; no token is issued in either case.
C9_LoginNeedsExactlyOneIdentifier ==
  (/\ resp.op = "loginUser"
   /\ (resp.email # "") = (resp.username # ""))
    => (resp.status = 400 /\ ~resp.issued)

\* ====================================================== concurrent toggles
\* Each toggle handler awaits twice: findOne, then create or deleteOne.  In
\* this specification the two halves are separate steps, so the halves of
\* two requests interleave in every order.

\* toggle requests started in one run
MaxRaceReqs == 3

\* rows of the relation (kind, u, t) in the two collections
RelRows(ls, ss, kind, u, t) ==
  IF kind = "channel"
  THEN {s \in ss : s.subscriber = u /\ s.channel = t}
  ELSE {l \in ls : l.field = kind /\ l.target = t /\ l.likedBy = u}

SameKey(a, b) ==
  a.kind = b.kind /\ a.caller = b.caller /\ a.target = b.target

\* The serial number of the other request, if it is on the same relation, its
\* findOne saw the store as it is now and it has not written yet; 0 if there
\* is no such request.
RacePartner(r, req) ==
  LET partners == {q \in Requests \ {r} :
                     /\ inflight[q].pc = "found"
                     /\ SameKey(inflight[q], req)
                     /\ inflight[q].likes = likes
                     /\ inflight[q].subs = subscriptions}
  IN IF partners = {} THEN 0 ELSE inflight[CHOOSE q \in partners : TRUE].n

RaceUnchanged == UNCHANGED <<toggled, videos, comments, tweets, playlists,
                             watchhistory, users, registered, tokenSeq,
                             resetTokens, issued, resets>>

\* first half of toggle<Video|Comment|Tweet>Like: the guard and findOne
toggleLikeFind(r) ==
  /\ inflight[r].pc = "idle"
  /\ nreq < MaxRaceReqs
  /\ \E field \in LikeFields, u \in UserIds, t \in {"t1"} :
       LET req == [op |-> "toggleLike", pc |-> "found", kind |-> field,
                   caller |-> u, target |-> t,
                   found |-> LikeFindOne(likes, field, t, u),
                   n |-> nreq + 1, likes |-> likes, subs |-> subscriptions,
                   raced |-> 0]
       IN inflight' = [inflight EXCEPT ![r] =
                         [req EXCEPT !.raced = RacePartner(r, req)]]
  /\ nreq' = nreq + 1
  /\ UNCHANGED <<likes, subscriptions, docSeq, resp>>
  /\ RaceUnchanged

\* second half: Like.create or like.deleteOne, then the response
toggleLikeWrite(r) ==
  /\ inflight[r].pc = "found"
  /\ inflight[r].op = "toggleLike"
  /\ LET q == inflight[r]
         w == LikeWrite(likes, q.found, q.kind, q.target, q.caller, docSeq + 1)
     IN /\ likes' = w.likes
        /\ docSeq' = IF w.created THEN docSeq + 1 ELSE docSeq
        /\ resp' = [op |-> "toggleLike", field |-> q.kind, caller |-> q.caller,
                    target |-> q.target, status |-> w.status,
                    created |-> w.created]
        /\ inflight' = [inflight EXCEPT ![r].pc = "done"]
  /\ UNCHANGED <<subscriptions, nreq>>
  /\ RaceUnchanged

\* first half of toggleSubscription: the self-subscription guard and findOne
toggleSubscriptionFind(r) ==
  /\ inflight[r].pc = "idle"
  /\ nreq < MaxRaceReqs
  /\ \E u \in UserIds, channelId \in UserIds :
       LET req == [op |-> "toggleSubscription", pc |-> "found",
                   kind |-> "channel", caller |-> u, target |-> channelId,
                   found |-> SubFindOne(subscriptions, u, channelId),
                   n |-> nreq + 1, likes |-> likes, subs |-> subscriptions,
                   raced |-> 0]
       IN IF StrictEquals(Str(channelId), ReqUserId(u))
          THEN /\ resp' = [op |-> "toggleSubscription", caller |-> u,
                           target |-> channelId, status |-> 400,
                           created |-> FALSE,
                           msg |-> "you cannot subscribe to yourself"]
               /\ UNCHANGED inflight
          ELSE /\ inflight' = [inflight EXCEPT ![r] =
                      [req EXCEPT !.raced = RacePartner(r, req)]]
               /\ UNCHANGED resp
  /\ nreq' = nreq + 1
  /\ UNCHANGED <<likes, subscriptions, docSeq>>
  /\ RaceUnchanged

\* second half: Subscription.create or subscription.deleteOne
toggleSubscriptionWrite(r) ==
  /\ inflight[r].pc = "found"
  /\ inflight[r].op = "toggleSubscription"
  /\ LET q == inflight[r]
         w == SubWrite(subscriptions, q.found, q.caller, q.target, docSeq + 1)
     IN /\ subscriptions' = w.subs
        /\ docSeq' = IF w.created THEN docSeq + 1 ELSE docSeq
        /\ resp' = [op |-> "toggleSubscription", caller |-> q.caller,
                    target |-> q.target, status |-> w.status,
                    created |-> w.created, msg |-> w.msg]
        /\ inflight' = [inflight EXCEPT ![r].pc = "done"]
  /\ UNCHANGED <<likes, nreq>>
  /\ RaceUnchanged

\* the response has been sent: the slot serves the next request
toggleDone(r) ==
  /\ inflight[r].pc = "done"
  /\ inflight[r].op \in {"toggleLike", "toggleSubscription"}
  /\ inflight' = [inflight EXCEPT ![r] = Idle]
  /\ UNCHANGED <<likes, subscriptions, docSeq, resp, nreq>>
  /\ RaceUnchanged

NextToggleRace ==
  \/ \E r \in Requests : toggleLikeFind(r)
  \/ \E r \in Requests : toggleLikeWrite(r)
  \/ \E r \in Requests : toggleSubscriptionFind(r)
  \/ \E r \in Requests : toggleSubscriptionWrite(r)
  \/ \E r \in Requests : toggleDone(r)

SpecToggleRace == Init /\ [][NextToggleRace]_vars

\* C11: in every reachable state, whatever the interleaving of toggle
\* requests, there is at most one Like per (likedBy, target) pair and at most
\* one Subscription per (subscriber, channel) pair.
C11_AtMostOneRowPerPair ==
  /\ \A f \in LikeFields, u \in UserIds, t \in TargetIds :
       Cardinality(RelRows(likes, subscriptions, f, u, t)) <= 1
  /\ \A u \in UserIds, c \in UserIds :
       Cardinality(RelRows(likes, subscriptions, "channel", u, c)) <= 1

\* the two toggles of the pair (a, b) run one after the other from the store
\* request b read
SequentialRows(q) ==
  IF q.kind = "channel"
  THEN RelRows({}, ToggleSubscription(
                     ToggleSubscription(q.subs, q.caller, q.target, 101).subs,
                     q.caller, q.target, 102).subs,
               q.kind, q.caller, q.target)
  ELSE RelRows(ToggleLike(ToggleLike(q.likes, q.kind, q.target, q.caller,
                                     101).likes,
                          q.kind, q.target, q.caller, 102).likes,
               {}, q.kind, q.caller, q.target)

RacedPairDone(a, b) ==
  /\ a # b
  /\ inflight[a].pc = "done" /\ inflight[b].pc = "done"
  /\ SameKey(inflight[a], inflight[b])
  /\ inflight[b].raced = inflight[a].n

\* C18: two toggles by one actor on one target that both ran findOne before
\* either wrote leave two rows when the relation was absent and no row when
\* it had one row, and in each case a number of rows that running the two
\* requests one after the other does not produce.
C18_ToggleNotAtomic ==
  \A a, b \in Requests :
    RacedPairDone(a, b) =>
      LET q == inflight[b]
          start == RelRows(q.likes, q.subs, q.kind, q.caller, q.target)
          now == RelRows(likes, subscriptions, q.kind, q.caller, q.target)
      IN /\ (start = {}) => Cardinality(now) = 2
         /\ Cardinality(start) = 1 => now = {}
         /\ Cardinality(now) # Cardinality(SequentialRows(q))

C18_Witness ==
  \E a, b \in Requests :
    /\ RacedPairDone(a, b)
    /\ inflight[b].found = {}
    /\ Cardinality(RelRows(likes, subscriptions, inflight[b].kind,
                           inflight[b].caller, inflight[b].target)) = 2

\* ==================================================== concurrent playlists
\* addVideoToPlaylist, removeVideoFromPlaylist and updatePlaylist load the
\* playlist document, change the copy they hold and await playlist.save().
\* save() sends only what the copy changed: a push becomes a $push of the new
\* element, a pull a $pullAll of the element, an assignment of name or
\* description a $set of that field; each applies to the stored document.

\* playlist requests started in one run
MaxPlaylistReqs == 3

\* names an updatePlaylist body can carry: absent (undefined) or a new text
PlaylistNames == {"", "new"}

PlaylistRaceUnchanged == UNCHANGED <<likes, subscriptions, docSeq, toggled,
                                     videos, comments, tweets, watchhistory,
                                     users,
                                     registered, tokenSeq, resetTokens,
                                     issued, resets>>

\* the guards of add / remove up to and including the includes test on the
\* loaded copy: the error response, or none (0) when the handler goes on
PlaylistGuard(ps, vs, videoId, playlistId, adding) ==
  IF ~isValidObjectId(videoId) \/ ~isValidObjectId(playlistId)
  THEN [status |-> 400, msg |-> "videoId or playlistId is not valid."]
  ELSE IF FindById(vs, videoId) = {}
  THEN [status |-> 400, msg |-> "Api Error. video not found"]
  ELSE IF FindById(ps, playlistId) = {}
  THEN [status |-> 400, msg |-> "Api Error. playlist not found"]
  ELSE IF adding /\ Includes(VideosIn(ps, playlistId), videoId)
  THEN [status |-> 400, msg |-> "Api Error. video already in playlist"]
  ELSE IF ~adding /\ ~Includes(VideosIn(ps, playlistId), videoId)
  THEN [status |-> 400, msg |-> "Api Error. video not in playlist"]
  ELSE [status |-> 0, msg |-> ""]

\* playlist.save() after videos.push(x): $push on the stored array
SavePush(ps, playlistId, x) ==
  SetVideos(ps, playlistId, Push(VideosIn(ps, playlistId), x))
\* playlist.save() after videos.pull(x): $pullAll on the stored array
SavePull(ps, playlistId, x) ==
  SetVideos(ps, playlistId, Pull(VideosIn(ps, playlistId), x))
\* playlist.save() after Object.assign(playlist, {name, description})
SaveName(ps, playlistId, name) ==
  {IF d.id = playlistId /\ name # "" THEN [d EXCEPT !.name = name] ELSE d :
     d \in ps}

PlaylistLoad(r, op, adding) ==
  /\ inflight[r].pc = "idle"
  /\ nreq < MaxPlaylistReqs
  /\ \E u \in UserIds, videoId \in IdParams(videos),
        playlistId \in IdParams(playlists) :
       LET g == PlaylistGuard(playlists, videos, videoId, playlistId, adding)
       IN IF g.status # 0
          THEN /\ resp' = [op |-> op, caller |-> u, video |-> videoId,
                           target |-> playlistId,
                           before |-> VideosIn(playlists, playlistId),
                           status |-> g.status, msg |-> g.msg]
               /\ UNCHANGED inflight
          ELSE /\ inflight' = [inflight EXCEPT ![r] =
                      [op |-> op, pc |-> "loaded", caller |-> u,
                       video |-> videoId, target |-> playlistId,
                       before |-> VideosIn(playlists, playlistId)]]
               /\ UNCHANGED resp
  /\ nreq' = nreq + 1
  /\ UNCHANGED playlists
  /\ PlaylistRaceUnchanged

PlaylistSave(r, op, saved, msg) ==
  /\ inflight[r].pc = "loaded"
  /\ inflight[r].op = op
  /\ playlists' = saved
  /\ resp' = [op |-> op, caller |-> inflight[r].caller,
              video |-> inflight[r].video, target |-> inflight[r].target,
              before |-> inflight[r].before, status |-> 200, msg |-> msg]
  /\ inflight' = [inflight EXCEPT ![r] = Idle]
  /\ UNCHANGED nreq
  /\ PlaylistRaceUnchanged

addVideoToPlaylistLoad(r) ==
  /\ inflight[r].pc = "idle"
  /\ PlaylistLoad(r, "addVideoToPlaylist", TRUE)
addVideoToPlaylistSave(r) ==
  /\ inflight[r].op = "addVideoToPlaylist"
  /\ PlaylistSave(r, "addVideoToPlaylist",
                  SavePush(playlists, inflight[r].target, inflight[r].video),
                  "video added to playlist successfully")

removeVideoFromPlaylistLoad(r) ==
  /\ inflight[r].pc = "idle"
  /\ PlaylistLoad(r, "removeVideoFromPlaylist", FALSE)
removeVideoFromPlaylistSave(r) ==
  /\ inflight[r].op = "removeVideoFromPlaylist"
  /\ PlaylistSave(r, "removeVideoFromPlaylist",
                  SavePull(playlists, inflight[r].target, inflight[r].video),
                  "video removed from playlist successfully")

updatePlaylistLoad(r) ==
  /\ inflight[r].pc = "idle"
  /\ nreq < MaxPlaylistReqs
  /\ \E u \in UserIds, playlistId \in IdParams(playlists),
        name \in PlaylistNames :
       IF ~isValidObjectId(playlistId) \/ FindById(playlists, playlistId) = {}
       THEN /\ resp' = [op |-> "updatePlaylist", caller |-> u,
                        target |-> playlistId, status |-> 400,
                        msg |-> IF ~isValidObjectId(playlistId)
                                THEN "playlistId is not valid."
                                ELSE "Api Error. playlist not found"]
            /\ UNCHANGED inflight
       ELSE /\ inflight' = [inflight EXCEPT ![r] =
                   [op |-> "updatePlaylist", pc |-> "loaded", caller |-> u,
                    video |-> 0, target |-> playlistId, name |-> name,
                    before |-> VideosIn(playlists, playlistId)]]
            /\ UNCHANGED resp
  /\ nreq' = nreq + 1
  /\ UNCHANGED playlists
  /\ PlaylistRaceUnchanged

updatePlaylistSave(r) ==
  /\ inflight[r].op = "updatePlaylist"
  /\ PlaylistSave(r, "updatePlaylist",
                  SaveName(playlists, inflight[r].target, inflight[r].name),
                  "playlist updated successfully")

NextPlaylistRace ==
  \/ \E r \in Requests : addVideoToPlaylistLoad(r)
  \/ \E r \in Requests : addVideoToPlaylistSave(r)
  \/ \E r \in Requests : removeVideoFromPlaylistLoad(r)
  \/ \E r \in Requests : removeVideoFromPlaylistSave(r)
  \/ \E r \in Requests : updatePlaylistLoad(r)
  \/ \E r \in Requests : updatePlaylistSave(r)

SpecPlaylistRace == InitContent /\ [][NextPlaylistRace]_vars

\* C12: in every reachable state, whatever the interleaving of
\* addVideoToPlaylist, removeVideoFromPlaylist and updatePlaylist requests,
\* no video id occurs twice in the videos list of a playlist.
C12_NoDuplicateVideoInPlaylist ==
  \A d \in playlists :
    \A i, j \in 1..Len(d.videos) : i # j => d.videos[i] # d.videos[j]

\* ================================================================ sessions
\* logoutUser: $set refreshToken to null on the caller's document
LogoutUser(us, u) ==
  [users |-> {IF x.id = u THEN [x EXCEPT !.refreshToken = NoToken] ELSE x :
                x \in us},
   status |-> 200, msg |-> "user logged out successfully"]

\* refreshAccessToken.  presented: the token of the cookie or the body
\* (NoToken when there is none); verifies: does jwt.verify accept it (signed
\* by this server and not expired).  Errors thrown inside the try block,
\* the 401s included, are caught and rethrown with status 500.  The handler
\* destructures newRefreshToken from the pair generateAccessAndRefreshTokens
\* returns.
RefreshAccessTokenNoMatch(us, presented, verifies, serial) ==
  IF presented = NoToken
  THEN [users |-> us, status |-> 400, msg |-> "unauthorized access",
        refreshToken |-> NoToken]
  ELSE IF ~verifies \/ presented[1] # "refresh"
  THEN [users |-> us, status |-> 500, msg |-> "jwt error",
        refreshToken |-> NoToken]
  ELSE IF {x \in us : x.id = presented[2]} = {}
  THEN [users |-> us, status |-> 500, msg |-> "unauthorized access",
        refreshToken |-> NoToken]
  ELSE LET g == GenerateAccessAndRefreshTokens(us, presented[2], serial)
       IN [users |-> g.users, status |-> 200,
           msg |-> "token refreshed successfully",
           refreshToken |-> Destructure(g.tokens, "newRefreshToken")]
RefreshAccessToken(us, presented, verifies, serial) ==
  IF presented = NoToken
  THEN [users |-> us, status |-> 400, msg |-> "unauthorized access",
        refreshToken |-> NoToken]
  ELSE IF ~verifies \/ presented[1] # "refresh"
  THEN [users |-> us, status |-> 500, msg |-> "jwt error",
        refreshToken |-> NoToken]
  ELSE IF {x \in us : x.id = presented[2]} = {}
  THEN [users |-> us, status |-> 500, msg |-> "unauthorized access",
        refreshToken |-> NoToken]
  ELSE IF presented # UserById(us, presented[2]).refreshToken
  THEN [users |-> us, status |-> 500, msg |-> "refresh Token is mismatch",
        refreshToken |-> NoToken]
  ELSE LET g == GenerateAccessAndRefreshTokens(us, presented[2], serial)
       IN [users |-> g.users, status |-> 200,
           msg |-> "token refreshed successfully",
           refreshToken |-> Destructure(g.tokens, "newRefreshToken")]

\* updatePassword: `throw new ApiError("invalid old password")` carries no
\* status code, the error response is a 500.
UpdatePasswordNoCheck(us, u, oldPassword, newPassword) ==
  [users |-> {IF x.id = u THEN [x EXCEPT !.password = Hash(newPassword)]
              ELSE x : x \in us},
   status |-> 200, msg |-> "password updated successfully"]
UpdatePassword(us, u, oldPassword, newPassword) ==
  IF ~IsPasswordCorrect(UserById(us, u).password, oldPassword)
  THEN [users |-> us, status |-> 500, msg |-> "invalid old password"]
  ELSE [users |-> {IF x.id = u THEN [x EXCEPT !.password = Hash(newPassword)]
                   ELSE x : x \in us},
        status |-> 200, msg |-> "password updated successfully"]

SessionUnchanged == UNCHANGED <<likes, subscriptions, docSeq, toggled, videos,
                                comments, tweets, playlists, watchhistory,
                                registered, nreq, inflight, resetTokens>>

logoutUser ==
  /\ \E u \in Authenticated :
       LET r == LogoutUser(users, u)
       IN /\ users' = r.users
          /\ resp' = [op |-> "logoutUser", caller |-> u, status |-> r.status,
                      msg |-> r.msg]
  /\ UNCHANGED <<tokenSeq, issued, resets>>
  /\ SessionUnchanged

\* tokens a client can send: none, one the server signed at some time, or
\* the text "undefined"
PresentableTokens == issued \cup {NoToken, Undefined}

refreshAccessToken ==
  /\ tokenSeq < MaxTokens
  /\ \E presented \in PresentableTokens, verifies \in BOOLEAN :
       LET r == RefreshAccessToken(users, presented, verifies, tokenSeq + 1)
       IN /\ users' = r.users
          /\ tokenSeq' = IF r.status = 200 THEN tokenSeq + 1 ELSE tokenSeq
          /\ issued' = IF r.status = 200
                       THEN issued \cup
                              {GenerateRefreshToken(presented[2], tokenSeq + 1)}
                       ELSE issued
          /\ resp' = [op |-> "refreshAccessToken", presented |-> presented,
                      verifies |-> verifies, status |-> r.status,
                      msg |-> r.msg, refreshToken |-> r.refreshToken]
  /\ UNCHANGED resets
  /\ SessionUnchanged

updatePassword ==
  /\ \E u \in Authenticated, oldPassword \in Passwords \cup {""},
        newPassword \in Passwords :
       LET r == UpdatePassword(users, u, oldPassword, newPassword)
       IN /\ users' = r.users
          /\ resp' = [op |-> "updatePassword", caller |-> u,
                      oldPassword |-> oldPassword,
                      newPassword |-> newPassword,
                      status |-> r.status, msg |-> r.msg]
  /\ UNCHANGED <<tokenSeq, issued, resets>>
  /\ SessionUnchanged

\* The session specification starts from a store with two registered users.
InitSession ==
  /\ likes = {}
  /\ subscriptions = {}
  /\ docSeq = 2
  /\ toggled = [k \in ToggleKeys |-> 0]
  /\ videos = {}
  /\ comments = {}
  /\ tweets = {}
  /\ playlists = {}
  /\ watchhistory = [u \in UserIds |-> <<>>]
  /\ users = {[id |-> 1, username |-> "alice", email |-> "a@x",
               password |-> Hash("pw1"), avatar |-> "url0",
               coverimage |-> "",
               refreshToken |-> NoToken],
              [id |-> 2, username |-> "bob", email |-> "b@x",
               password |-> Hash("pw1"), avatar |-> "url0",
               coverimage |-> "",
               refreshToken |-> NoToken]}
  /\ registered = {<<"alice", "a@x">>, <<"bob", "b@x">>}
  /\ tokenSeq = 0
  /\ resp = NoResp
  /\ nreq = 0
  /\ inflight = [r \in Requests |-> Idle]
  /\ resetTokens = {}
  /\ issued = {}
  /\ resets = {}

NextSession ==
  \/ loginUser
  \/ logoutUser
  \/ refreshAccessToken
  \/ updatePassword

SpecSession == InitSession /\ [][NextSession]_vars

\* the users a refresh token names
NamedBy(us, token) == {x \in us : x.id = token[2]}

C15_UpdatePasswordNeedsOldPassword ==
  [][resp'.op = "updatePassword" =>
       LET before == UserById(users, resp'.caller)
           after == UserById(users', resp'.caller)
           correct == IsPasswordCorrect(before.password, resp'.oldPassword)
       IN /\ correct => (/\ resp'.status = 200
                         /\ after.password = Hash(resp'.newPassword))
          /\ ~correct => (resp'.status >= 400 /\ users' = users)
          /\ after.password # before.password => correct]_vars

\* a wrong old password has just been turned down
C15_Witness ==
  /\ resp.op = "updatePassword"
  /\ resp.oldPassword # ""
  /\ resp.status >= 400
  /\ ~IsPasswordCorrect(UserById(users, resp.caller).password,
                        resp.oldPassword)
  /\ UserById(users, resp.caller).password # Hash(resp.newPassword)

\* C20: a successful refreshAccessToken returns the refresh token it stored
\* on the user, so the next refresh, presenting the returned token, succeeds.
C20_RefreshReturnsStoredToken ==
  (resp.op = "refreshAccessToken" /\ resp.status = 200) =>
    \E x \in NamedBy(users, resp.presented) :
      x.refreshToken = resp.refreshToken

\* ========================================================= password reset
\* reset mails sent and resetPassword requests started in one run
MaxResetMails == 2
MaxResetReqs == 3

\* addresses a reset-mail request can name: none, a registered one, another
ResetEmails == {"", "a@x", "c@x"}

ResetUnchanged == UNCHANGED <<likes, subscriptions, toggled, videos, comments, tweets,
                              playlists, watchhistory, registered, issued>>

\* passwordResetMail: a fresh random token is stored for the user found by
\* email, then the mail is sent; an error of sendMail is answered with 400
\* and leaves the token document in place.
PasswordResetMail(us, rts, email, mailSent, newId, newToken) ==
  IF email = ""
  THEN [resetTokens |-> rts, status |-> 404, msg |-> "email required"]
  ELSE IF {x \in us : x.email = email} = {}
  THEN [resetTokens |-> rts, status |-> 404, msg |-> "user not found"]
  ELSE LET user == CHOOSE x \in First({x \in us : x.email = email}) : TRUE
           created == rts \cup {[id |-> newId, userId |-> user.id,
                                 token |-> newToken]}
       IN IF mailSent
          THEN [resetTokens |-> created, status |-> 200,
                msg |-> "password reset mail has been send"]
          ELSE [resetTokens |-> created, status |-> 400, msg |-> "Api error"]

passwordResetMail ==
  /\ tokenSeq < MaxResetMails
  /\ \E email \in ResetEmails, mailSent \in BOOLEAN :
       LET r == PasswordResetMail(users, resetTokens, email, mailSent,
                                  docSeq + 1, tokenSeq + 1)
       IN /\ resetTokens' = r.resetTokens
          /\ docSeq' = IF resetTokens' # resetTokens THEN docSeq + 1
                       ELSE docSeq
          /\ tokenSeq' = IF resetTokens' # resetTokens THEN tokenSeq + 1
                         ELSE tokenSeq
          /\ resp' = [op |-> "passwordResetMail", email |-> email,
                      status |-> r.status, msg |-> r.msg]
  /\ UNCHANGED <<users, resets, nreq, inflight>>
  /\ ResetUnchanged

\* the TTL index on expiresAt removes a token document
expireResetToken ==
  /\ \E d \in resetTokens : resetTokens' = resetTokens \ {d}
  /\ UNCHANGED <<users, resets, nreq, inflight, docSeq, tokenSeq, resp>>
  /\ ResetUnchanged

\* tokenReset.findOne({userId, token}) / deleteOne({userId, token})
TokenFindOne(rts, userId, token) ==
  First({d \in rts : d.userId = userId /\ d.token = token})

\* has a resetPassword request with this (userId, token) replaced the
\* password and finished?
ResetCompleted(userId, token) ==
  \E x \in resets :
    /\ x[1] = token /\ x[3] = userId
    /\ \A q \in Requests :
         ~(inflight[q].op = "resetPassword" /\ inflight[q].n = x[2])

ResetResp(q, status, msg, replaced) ==
  [op |-> "resetPassword", userId |-> q.userId, token |-> q.token,
   afterSuccess |-> q.afterSuccess, status |-> status, msg |-> msg,
   replaced |-> replaced]

\* resetPassword up to await User.findOne({_id: userId}): a malformed id is
\* a CastError, caught and answered with 400
resetPasswordFindUser(r) ==
  /\ inflight[r].pc = "idle"
  /\ nreq < MaxResetReqs
  /\ \E userId \in {0, 1, 9}, token \in 0..tokenSeq,
        password \in Passwords :
       LET q == [op |-> "resetPassword", pc |-> "user", n |-> nreq + 1,
                 userId |-> userId, token |-> token, password |-> password,
                 afterSuccess |-> ResetCompleted(userId, token)]
       IN IF ~isValidObjectId(userId)
          THEN /\ resp' = ResetResp(q, 400, "Api error", FALSE)
               /\ UNCHANGED inflight
          ELSE IF {x \in users : x.id = userId} = {}
          THEN /\ resp' = ResetResp(q, 404, "user not found", FALSE)
               /\ UNCHANGED inflight
          ELSE /\ inflight' = [inflight EXCEPT ![r] = q]
               /\ UNCHANGED resp
  /\ nreq' = nreq + 1
  /\ UNCHANGED <<users, resetTokens, resets, docSeq, tokenSeq>>
  /\ ResetUnchanged

\* up to await tokenReset.findOne({userId, token})
resetPasswordFindToken(r) ==
  /\ inflight[r].pc = "user"
  /\ inflight[r].op = "resetPassword"
  /\ IF TokenFindOne(resetTokens, inflight[r].userId, inflight[r].token) = {}
     THEN /\ resp' = ResetResp(inflight[r], 404,
                               "token not found or invalid token", FALSE)
          /\ inflight' = [inflight EXCEPT ![r] = Idle]
     ELSE /\ inflight' = [inflight EXCEPT ![r].pc = "token"]
          /\ UNCHANGED resp
  /\ UNCHANGED <<users, resetTokens, resets, docSeq, tokenSeq, nreq>>
  /\ ResetUnchanged

\* user.password = password; await user.save()
SavePassword(us, userId, password) ==
  {IF x.id = userId THEN [x EXCEPT !.password = Hash(password)] ELSE x :
     x \in us}

resetPasswordSave(r) ==
  /\ inflight[r].pc = "token"
  /\ inflight[r].op = "resetPassword"
  /\ users' = SavePassword(users, inflight[r].userId, inflight[r].password)
  /\ resets' = resets \cup
                 {<<inflight[r].token, inflight[r].n, inflight[r].userId>>}
  /\ inflight' = [inflight EXCEPT ![r].pc = "saved"]
  /\ UNCHANGED <<resetTokens, docSeq, tokenSeq, nreq, resp>>
  /\ ResetUnchanged

\* await tokenReset.deleteOne({userId, token}) and the response
resetPasswordDelete(r) ==
  /\ inflight[r].pc = "saved"
  /\ inflight[r].op = "resetPassword"
  /\ resetTokens' = resetTokens \
                      TokenFindOne(resetTokens, inflight[r].userId,
                                   inflight[r].token)
  /\ resp' = ResetResp(inflight[r], 200, "password updated successfully",
                       TRUE)
  /\ inflight' = [inflight EXCEPT ![r] = Idle]
  /\ UNCHANGED <<users, resets, docSeq, tokenSeq, nreq>>
  /\ ResetUnchanged

NextReset ==
  \/ passwordResetMail
  \/ expireResetToken
  \/ \E r \in Requests : resetPasswordFindUser(r)
  \/ \E r \in Requests : resetPasswordFindToken(r)
  \/ \E r \in Requests : resetPasswordSave(r)
  \/ \E r \in Requests : resetPasswordDelete(r)

SpecReset == InitSession /\ [][NextReset]_vars

\* C14: a reset token is single-use.  Whatever the interleaving, at most one
\* resetPassword request replaces the password with a given (userId, token);
\* once such a request has finished the token document is gone, and a later
\* request with the token gets 'token not found or invalid token' and
\* replaces nothing.
C14_ResetTokenSingleUse ==
  /\ \A x, y \in resets : (x[1] = y[1] /\ x[3] = y[3]) => x = y
  /\ \A x \in resets :
       ResetCompleted(x[3], x[1]) =>
         TokenFindOne(resetTokens, x[3], x[1]) = {}
  /\ (resp.op = "resetPassword" /\ resp.afterSuccess) =>
       /\ resp.status = 404
       /\ resp.msg = "token not found or invalid token"
       /\ ~resp.replaced

\* ================================================= concurrent registration
\* RegisterUser awaits User.findOne, the uploads and User.create one after
\* the other; here the findOne guard and the rest are separate steps.
RegisterUnchanged == UNCHANGED <<likes, subscriptions, toggled, videos,
                                 comments, tweets, playlists, watchhistory, tokenSeq,
                                 nreq, resetTokens, issued, resets>>

Checked == {q \in Requests : inflight[q].pc = "checked"}

registerUserFind(r) ==
  /\ inflight[r].pc = "idle"
  /\ docSeq + Cardinality(Checked) < MaxUsers
  /\ \E username \in Usernames \cup {""}, email \in Emails \cup {""},
        othersGiven \in BOOLEAN :
       LET g == RegisterGuard(users, username, email, othersGiven)
       IN IF g.status # 0
          THEN /\ resp' = [op |-> "RegisterUser", username |-> username,
                           email |-> email, othersGiven |-> othersGiven,
                           status |-> g.status, msg |-> g.msg,
                           fields |-> g.fields]
               /\ UNCHANGED inflight
          ELSE /\ inflight' = [inflight EXCEPT ![r] =
                      [op |-> "RegisterUser", pc |-> "checked",
                       username |-> username, email |-> email]]
               /\ UNCHANGED resp
  /\ UNCHANGED <<users, docSeq, registered>>
  /\ RegisterUnchanged

registerUserCreate(r) ==
  /\ inflight[r].pc = "checked"
  /\ inflight[r].op = "RegisterUser"
  /\ \E hasAvatar \in BOOLEAN, uploaded \in BOOLEAN :
       LET q == inflight[r]
           c == RegisterCreate(users, q.username, q.email, hasAvatar, uploaded,
                               docSeq + 1)
       IN /\ users' = c.users
          /\ docSeq' = IF c.status = 201 THEN docSeq + 1 ELSE docSeq
          /\ registered' = IF c.status = 201
                           THEN registered \cup {<<q.username, q.email>>}
                           ELSE registered
          /\ resp' = [op |-> "RegisterUser", username |-> q.username,
                      email |-> q.email, othersGiven |-> TRUE,
                      status |-> c.status, msg |-> c.msg, fields |-> c.fields]
  /\ inflight' = [inflight EXCEPT ![r] = Idle]
  /\ RegisterUnchanged

NextRegister ==
  \/ \E r \in Requests : registerUserFind(r)
  \/ \E r \in Requests : registerUserCreate(r)
  \/ updateAccountDetails

SpecRegister == Init /\ [][NextRegister]_vars

\* C16: whatever the interleaving of RegisterUser and updateAccountDetails
\* requests, no two User documents share a username or an email, and each
\* successful RegisterUser adds exactly one User document.
C16_UniqueUsernameAndEmail ==
  [][/\ \A x, y \in users' :
          x # y => (x.username # y.username /\ x.email # y.email)
     /\ \A r \in Requests :
          (/\ inflight[r].op = "RegisterUser"
           /\ inflight'[r].op = "idle"
           /\ resp'.status = 201)
            => /\ users \subseteq users'
               /\ Cardinality(users') = Cardinality(users) + 1]_vars

\* two requests passed the findOne guard with a colliding name or address;
\* the second create has just been turned down by the unique index
C16_Witness ==
  /\ resp.op = "RegisterUser"
  /\ resp.msg = "duplicate key"
  /\ \E x \in users :
       x.username = ToLowerCase(resp.username) \/ x.email = resp.email

\* ======================================================== concurrent views
\* getVideoById runs on the copy of the User document the auth middleware
\* loaded (req.user), loads the Video, changes both copies and awaits
\* video.save() and then user.save().  save() writes what the copy changed:
\* views as a $set of the copy's number.  A watchhistory that was assigned
\* is written as a $set of the whole array, guarded by the version the copy
\* was loaded with: the save fails (VersionError) when another save has set
\* the array since.  The stored array of a user changes only by such a
\* save, so the stored version is the loaded one exactly when the stored
\* array is the loaded one.

\* getVideoById / updateVideo requests started in one run
MaxViewReqs == 3

ViewUnchanged == UNCHANGED <<likes, subscriptions, docSeq, toggled, comments, tweets,
                             playlists, users, registered, tokenSeq,
                             resetTokens, issued, resets>>

ViewResp(q, status, msg) ==
  [op |-> "getVideoById", caller |-> q.caller, target |-> q.video,
   status |-> status, msg |-> msg]

\* the auth middleware has loaded req.user
getVideoByIdAuth(r) ==
  /\ inflight[r].pc = "idle"
  /\ nreq < MaxViewReqs
  /\ \E u \in UserIds, videoId \in IdParams(videos) :
       inflight' = [inflight EXCEPT ![r] =
                      [op |-> "getVideoById", pc |-> "auth", n |-> nreq + 1,
                       caller |-> u, video |-> videoId,
                       hist |-> watchhistory[u], newHist |-> watchhistory[u],
                       views |-> 0, modified |-> FALSE, raced |-> 0]]
  /\ nreq' = nreq + 1
  /\ UNCHANGED <<videos, watchhistory, resp>>
  /\ ViewUnchanged

\* another request of the same user for the same video that has passed the
\* includes test and has saved nothing yet
ViewPartner(r) ==
  LET partners == {q \in Requests \ {r} :
                     /\ inflight[q].op = "getVideoById"
                     /\ inflight[q].pc = "checked"
                     /\ inflight[q].modified
                     /\ inflight[q].caller = inflight[r].caller
                     /\ inflight[q].video = inflight[r].video}
  IN IF partners = {} THEN 0 ELSE inflight[CHOOSE q \in partners : TRUE].n

\* await Video.findById, the includes test on req.user.watchhistory and the
\* changes to the two copies
getVideoByIdFind(r) ==
  /\ inflight[r].pc = "auth"
  /\ inflight[r].op = "getVideoById"
  /\ LET q == inflight[r]
         absent == FindById(videos, q.video) = {}
         fresh == ~Includes(q.hist, q.video)
     IN IF ~isValidObjectId(q.video)
        THEN /\ resp' = ViewResp(q, 500, "CastError")
             /\ inflight' = [inflight EXCEPT ![r] = Idle]
        ELSE IF absent
        THEN /\ resp' = IF fresh THEN ViewResp(q, 500, "TypeError")
                        ELSE ViewResp(q, 400, "something went wrong")
             /\ inflight' = [inflight EXCEPT ![r] = Idle]
        ELSE /\ fresh => VideoById(videos, q.video).views < MaxViews
             /\ inflight' = [inflight EXCEPT ![r] =
                    [q EXCEPT !.pc = "checked",
                              !.views = VideoById(videos, q.video).views
                                          + (IF fresh THEN 1 ELSE 0),
                              !.modified = fresh,
                              !.newHist = IF fresh
                                          THEN CastToIdArray(
                                                 PlusAssign(q.hist, q.video),
                                                 q.hist)
                                          ELSE q.hist,
                              !.raced = IF fresh THEN ViewPartner(r) ELSE 0]]
             /\ UNCHANGED resp
  /\ UNCHANGED <<videos, watchhistory, nreq>>
  /\ ViewUnchanged

\* await video.save()
SaveViews(vs, id, modified, n) ==
  IF modified /\ FindById(vs, id) # {} THEN SetViews(vs, id, n) ELSE vs

getVideoByIdSaveVideo(r) ==
  /\ inflight[r].pc = "checked"
  /\ inflight[r].op = "getVideoById"
  /\ videos' = SaveViews(videos, inflight[r].video, inflight[r].modified,
                         inflight[r].views)
  /\ inflight' = [inflight EXCEPT ![r].pc = "videoSaved"]
  /\ UNCHANGED <<watchhistory, resp, nreq>>
  /\ ViewUnchanged

\* await user.save({validateBeforeSave: false}) and the response
SaveHistory(stored, loaded, assigned) ==
  IF assigned = loaded THEN [hist |-> stored, status |-> 200,
                             msg |-> "video fetched"]
  ELSE IF stored # loaded THEN [hist |-> stored, status |-> 400,
                                msg |-> "something went wrong"]
  ELSE [hist |-> assigned, status |-> 200, msg |-> "video fetched"]

getVideoByIdSaveUser(r) ==
  /\ inflight[r].pc = "videoSaved"
  /\ inflight[r].op = "getVideoById"
  /\ LET q == inflight[r]
         w == SaveHistory(watchhistory[q.caller], q.hist, q.newHist)
     IN /\ watchhistory' = [watchhistory EXCEPT ![q.caller] = w.hist]
        /\ resp' = ViewResp(q, w.status, w.msg)
  /\ inflight' = [inflight EXCEPT ![r].pc = "done"]
  /\ UNCHANGED <<videos, nreq>>
  /\ ViewUnchanged

getVideoByIdDone(r) ==
  /\ inflight[r].pc = "done"
  /\ inflight[r].op = "getVideoById"
  /\ inflight' = [inflight EXCEPT ![r] = Idle]
  /\ UNCHANGED <<videos, watchhistory, resp, nreq>>
  /\ ViewUnchanged

\* updateVideo up to await Video.findById: trim() is called on title,
\* description and the thumbnail path, a TypeError when one is missing
updateVideoLoad(r) ==
  /\ inflight[r].pc = "idle"
  /\ nreq < MaxViewReqs
  /\ \E u \in UserIds, videoId \in IdParams(videos) \ {0},
        title \in Titles \cup {<<>>}, allGiven \in BOOLEAN :
       LET q == [op |-> "updateVideo", pc |-> "loaded", n |-> nreq + 1,
                 caller |-> u, video |-> videoId, title |-> title]
           answer(status, msg) ==
             [op |-> "updateVideo", caller |-> u, target |-> videoId,
              status |-> status, msg |-> msg]
       IN IF ~allGiven
          THEN /\ resp' = answer(500, "TypeError")
               /\ UNCHANGED inflight
          ELSE IF title = <<>>
          THEN /\ resp' = answer(400, "atleast provide one of title, ..")
               /\ UNCHANGED inflight
          ELSE IF FindById(videos, videoId) = {}
          THEN /\ resp' = answer(404, "video not found")
               /\ UNCHANGED inflight
          ELSE /\ inflight' = [inflight EXCEPT ![r] = q]
               /\ UNCHANGED resp
  /\ nreq' = nreq + 1
  /\ UNCHANGED <<videos, watchhistory>>
  /\ ViewUnchanged

\* video.save() after the assignments: a $set of title, description and
\* thumbnail
SaveTitle(vs, id, title) ==
  {IF d.id = id THEN [d EXCEPT !.title = title] ELSE d : d \in vs}

updateVideoSave(r) ==
  /\ inflight[r].pc = "loaded"
  /\ inflight[r].op = "updateVideo"
  /\ videos' = SaveTitle(videos, inflight[r].video, inflight[r].title)
  /\ resp' = [op |-> "updateVideo", caller |-> inflight[r].caller,
              target |-> inflight[r].video, status |-> 200,
              msg |-> "video updated successfully"]
  /\ inflight' = [inflight EXCEPT ![r] = Idle]
  /\ UNCHANGED <<watchhistory, nreq>>
  /\ ViewUnchanged

NextViewRace ==
  \/ \E r \in Requests : getVideoByIdAuth(r)
  \/ \E r \in Requests : getVideoByIdFind(r)
  \/ \E r \in Requests : getVideoByIdSaveVideo(r)
  \/ \E r \in Requests : getVideoByIdSaveUser(r)
  \/ \E r \in Requests : getVideoByIdDone(r)
  \/ \E r \in Requests : updateVideoLoad(r)
  \/ \E r \in Requests : updateVideoSave(r)

SpecViewRace == InitContent /\ [][NextViewRace]_vars

\* C17: the stored view count of a video never decreases, in any step of
\* any interleaving of getVideoById and updateVideo requests.
C17_ViewsNeverDecrease ==
  [][\A d \in videos : \A e \in videos' :
       e.id = d.id => e.views >= d.views]_vars

\* C19: two getVideoById requests of one user for one video that both passed
\* the watch-history includes test before either saved leave the video twice
\* in the user's stored watch history.
C19_ConcurrentViewsDoubleAppend ==
  \A a, b \in Requests :
    (/\ a # b
     /\ inflight[a].op = "getVideoById" /\ inflight[a].pc = "done"
     /\ inflight[b].op = "getVideoById" /\ inflight[b].pc = "done"
     /\ inflight[b].raced = inflight[a].n)
      => CountIn(watchhistory[inflight[b].caller], inflight[b].video) >= 2

\* ------------------------------------------------------------ user names
\* C30: every stored User.username is lower-case in every reachable state,
\* after any sequence of RegisterUser and updateAccountDetails requests.
C30_UsernamesLowerCase ==
  \A x \in users : x.username = ToLowerCase(x.username)

\* -------------------------------------------------------- channel profile
\* a store whose two users are the principals of the toggle requests
InitChannel ==
  /\ likes = {}
  /\ subscriptions = {}
  /\ docSeq = 2
  /\ toggled = [k \in ToggleKeys |-> 0]
  /\ videos = {}
  /\ comments = {}
  /\ tweets = {}
  /\ playlists = {}
  /\ watchhistory = [u \in UserIds |-> <<>>]
  /\ users = {[id |-> "u1", username |-> "alice", email |-> "a@x",
               password |-> Hash("pw1"), avatar |-> "url0",
               coverimage |-> "",
               refreshToken |-> NoToken],
              [id |-> "u2", username |-> "bob", email |-> "b@x",
               password |-> Hash("pw1"), avatar |-> "url0",
               coverimage |-> "",
               refreshToken |-> NoToken]}
  /\ registered = {<<"alice", "a@x">>, <<"bob", "b@x">>}
  /\ tokenSeq = 0
  /\ resp = NoResp
  /\ nreq = 0
  /\ inflight = [r \in Requests |-> Idle]
  /\ resetTokens = {}
  /\ issued = {}
  /\ resets = {}

NextChannel ==
  \/ toggleSubscription
  \/ getChannelProfile

SpecChannel == InitChannel /\ [][NextChannel]_vars

\* the user a channel name denotes
ChannelNamed(username) ==
  CHOOSE x \in users : x.username = ToLowerCase(username)

\* C27: after any sequence of toggleSubscription requests, getChannelProfile
\* for channel c requested by user r reports subscribersCount = the number
\* of users subscribed to c, channelSubscribedToCount = the number of
\* channels c is subscribed to, and isSubscribed exactly when r's
\* subscription to c is present.
C27_ChannelProfileCounts ==
  (resp.op = "getChannelProfile" /\ resp.status = 200) =>
    LET c == ChannelNamed(resp.username).id
    IN /\ resp.profile[1] = Cardinality({u \in UserIds : SubPresent(u, c)})
       /\ resp.profile[2] = Cardinality({d \in UserIds : SubPresent(c, d)})
       /\ resp.profile[3] = SubPresent(resp.caller, c)

\* a profile read that finds two subscribers, the caller among them, and
\* one channel the profiled user subscribed to
C27_Witness ==
  /\ resp.op = "getChannelProfile" /\ resp.status = 200
  /\ resp.profile = <<2, 1, TRUE>>

\* ------------------------------------------------------------ liked videos
\* $project {_id: 0, video: 1} of one Like document, as the set of its
\* <<key, value>> pairs: the video field when the document has one, an
\* empty object otherwise
ProjectVideo(l) ==
  IF l.field = "video" THEN {<<"video", l.target>>} ELSE {}

\* getAllLikedVideos: $match on likedBy, then the $project, in natural order
GetAllLikedVideos(ls, u) ==
  LET matched == {l \in ls : l.likedBy = u}
      order == NaturalOrder({l.id : l \in matched})
  IN [i \in DOMAIN order |->
        ProjectVideo(CHOOSE l \in matched : l.id = order[i])]

getAllLikedVideos ==
  /\ \E u \in UserIds :
       resp' = [op |-> "getAllLikedVideos", caller |-> u, status |-> 200,
                data |-> GetAllLikedVideos(likes, u)]
  /\ UNCHANGED <<likes, subscriptions, docSeq, toggled, videos, comments,
                 tweets,
                 playlists, watchhistory, users, registered, tokenSeq, nreq,
                 inflight, resetTokens, issued, resets>>

NextLikes ==
  \/ toggleVideoLike
  \/ toggleCommentLike
  \/ toggleTweetLike
  \/ getAllLikedVideos

SpecLikes == Init /\ [][NextLikes]_vars

\* C25: getAllLikedVideos returns exactly the video ids the requesting user
\* currently likes: one entry carrying the video id for each video like of
\* that user, and no entry for the user's comment or tweet likes nor for
\* the likes of other users.
C25_LikedVideosExact ==
  resp.op = "getAllLikedVideos" =>
    /\ \A i \in DOMAIN resp.data :
         \E t \in TargetIds : /\ resp.data[i] = {<<"video", t>>}
                              /\ LikePresent("video", resp.caller, t)
    /\ \A t \in TargetIds :
         LikePresent("video", resp.caller, t) =>
           Cardinality({i \in DOMAIN resp.data :
                          resp.data[i] = {<<"video", t>>}}) = 1

\* ----------------------------------------------------- the like variants
\* the Like documents of one target field, with the field renamed
RenameField(ls, from, to) ==
  {[l EXCEPT !.field = to] : l \in {x \in ls : x.field = from}}

\* C26: toggleVideoLike, toggleCommentLike and toggleTweetLike are the same
\* operation up to the name of the target field: on the same Like documents
\* of an actor and a target the three variants have the same effect on the
\* collection and the same response, a 200 both when the like is created
\* and when it is deleted.
C26_ToggleVariantsEquivalent ==
  \A f \in LikeFields, u \in UserIds, t \in TargetIds :
    LET rf == ToggleLike(RenameField(likes, f, f), f, t, u, docSeq + 1)
        rv == ToggleLike(RenameField(likes, f, "video"), "video", t, u,
                         docSeq + 1)
    IN /\ RenameField(rf.likes, f, "video") = rv.likes
       /\ rf.created = rv.created
       /\ rf.status = rv.status
       /\ rf.status = 200

\* ---------------------------------------------------------- updateComment
\* the validation comment.save() runs on the content path: the Comment
\* schema is described with a content attribute and no constraint on it
ValidContent(content) == TRUE

\* !content.toString() === "" : the negation binds first, and a boolean is
\* never === a string
ContentGuardFires(content) ==
  StrictEquals([t |-> "boolean", v |-> content = ""], Str(""))

\* updateComment: commentId and content come from the body.  A missing
\* content has no toString (TypeError); the content guard, the lookup, the
\* owner test, then comment.content = content and comment.save().
UpdateComment(cs, u, commentId, hasContent, content) ==
  IF ~isValidObjectId(commentId)
  THEN [comments |-> cs, status |-> 400, msg |-> "commentId is not valid"]
  ELSE IF ~hasContent
  THEN [comments |-> cs, status |-> 500, msg |-> "TypeError"]
  ELSE IF ContentGuardFires(content)
  THEN [comments |-> cs, status |-> 400, msg |-> "content is required"]
  ELSE IF FindById(cs, commentId) = {}
  THEN [comments |-> cs, status |-> 400, msg |-> "comment not found"]
  ELSE IF OwnerOf(cs, commentId) # u
  THEN [comments |-> cs, status |-> 400,
        msg |-> "you are not the owner of this comment"]
  ELSE IF ~ValidContent(content)
  THEN [comments |-> cs, status |-> 500, msg |-> "ValidationError"]
  ELSE [comments |-> {IF d.id = commentId THEN [d EXCEPT !.content = content]
                      ELSE d : d \in cs},
        status |-> 200, msg |-> "comment updated successfully"]

updateComment ==
  /\ \E u \in UserIds, commentId \in IdParams(comments),
        hasContent \in BOOLEAN, content \in Texts \cup {"edit"} :
       LET r == UpdateComment(comments, u, commentId, hasContent, content)
       IN /\ comments' = r.comments
          /\ resp' = [op |-> "updateComment", caller |-> u,
                      target |-> commentId, hasContent |-> hasContent,
                      content |-> content,
                      docOwner |-> OwnerOf(comments, commentId),
                      status |-> r.status, msg |-> r.msg]
  /\ UNCHANGED <<playlists, tweets, docSeq>>
  /\ ContentUnchanged

NextComment ==
  \/ addComment
  \/ updateComment
  \/ deleteComment

SpecComment == InitContent /\ [][NextComment]_vars

\* C28: updateComment called by the comment's owner with empty content is
\* rejected with a 400 "content is required" and leaves the comment
\* unchanged, as addComment rejects empty content; every stored Comment has
\* non-empty content in every reachable state.
C28_UpdateCommentRejectsEmpty ==
  /\ (/\ resp.op = "updateComment" /\ resp.hasContent /\ resp.content = ""
      /\ resp.docOwner = resp.caller)
       => (resp.status = 400 /\ resp.msg = "content is required")
  /\ \A d \in comments : d.content # ""

\* ------------------------------------------- updateVideo and deleteVideo
\* requests this part serves before the store is left alone
MaxEditReqs == 2

\* extractPublicId: the last path segment of a url ending in .jpg or .mp4,
\* null for any other url
Null == [t |-> "null", v |-> 0]
ExtractPublicId(url) ==
  IF url.ext \in {"jpg", "mp4"} THEN Str(url.pid) ELSE Null

\* String.prototype.trim
RECURSIVE TrimStart(_)
TrimStart(text) ==
  IF text # <<>> /\ Head(text) = " " THEN TrimStart(Tail(text)) ELSE text
RECURSIVE TrimEnd(_)
TrimEnd(text) ==
  IF text # <<>> /\ text[Len(text)] = " "
  THEN TrimEnd(SubSeq(text, 1, Len(text) - 1)) ELSE text
Trim(text) == TrimEnd(TrimStart(text))

\* [title, description, thumbNailLocalPath].some(f => f.trim() === ""):
\* the fields are visited in order; an undefined one throws a TypeError,
\* a blank one makes some() true, and some() is false when none is left
RECURSIVE SomeBlank(_)
SomeBlank(fields) ==
  IF fields = <<>> THEN "none"
  ELSE IF Head(fields) = Absent THEN "TypeError"
  ELSE IF Trim(Head(fields).v) = <<>> THEN "blank"
  ELSE SomeBlank(Tail(fields))

\* the thumbnail a successful upload in this part returns, and the path of
\* the file multer stored
NewThumbnail == Asset(0, "jpg")
LocalPath == <<"p">>

\* updateVideo, run without interruption.  title and description are body
\* fields (a string, Absent when not sent), hasFile tells whether a
\* thumbnail file
\* came with the request, uploaded whether its upload succeeded.
UpdateVideo(vs, videoId, title, description, hasFile, uploaded) ==
  LET fault == SomeBlank(<<title, description,
                           IF hasFile THEN Str(LocalPath) ELSE Absent>>)
      found == FindById(vs, videoId)
      old == CHOOSE d \in found : TRUE
      fail(status, msg, remote) ==
        [videos |-> vs, status |-> status, msg |-> msg, remote |-> remote]
  IN IF fault = "TypeError" THEN fail(500, "TypeError", <<>>)
     ELSE IF fault = "blank"
     THEN fail(400, "atleast provide one of title, ..", <<>>)
     ELSE IF found = {} THEN fail(404, "video not found", <<>>)
     ELSE IF ~uploaded THEN fail(500, "TypeError", <<Upload(FALSE)>>)
     ELSE [videos |-> (vs \ found) \cup
                      {[old EXCEPT !.thumbnail = NewThumbnail,
                                   !.title = title.v,
                                   !.description = description.v]},
           status |-> 200, msg |-> "video updated successfully",
           remote |-> <<Upload(TRUE), Destroy(old.thumbnail)>>]

\* what cloudinary.uploader.destroy can report through
\* deleteFromCloudinary: {result: "ok"}, {result: "not found"}, or nothing
\* (undefined) when the call threw and the error was logged
RemoteResults == {"ok", "not found", "undefined"}

\* `a.result !== "ok"` on the results of the deletions issued, in order,
\* with the short circuit of ||: reading .result of undefined throws
RECURSIVE NotOk(_)
NotOk(results) ==
  IF results = <<>> THEN "none"
  ELSE IF Head(results) = "undefined" THEN "TypeError"
  ELSE IF Head(results) # "ok" THEN "failed"
  ELSE NotOk(Tail(results))

\* deleteVideo, run without interruption; r1 and r2 are the results of the
\* deletion of the video file and of the thumbnail.  One deletion is
\* issued when both urls give the same public id, two otherwise.
DeleteVideoIgnoresResult(vs, videoId, r1, r2) ==
  LET found == FindById(vs, videoId)
      old == CHOOSE d \in found : TRUE
      thumbnailId == ExtractPublicId(old.thumbnail)
      videofileId == ExtractPublicId(old.videofile)
      same == thumbnailId = videofileId
      remote == IF same THEN <<Destroy(<<videofileId, "video">>)>>
                ELSE <<Destroy(<<videofileId, "video">>),
                       Destroy(<<thumbnailId, "image">>)>>
      results == IF same THEN <<r1>> ELSE <<r1, r2>>
  IN IF found = {}
     THEN [videos |-> vs, status |-> 404, msg |-> "video not found",
           remote |-> <<>>, results |-> <<>>]
     ELSE [videos |-> vs \ found, status |-> 200,
           msg |-> "video deleted successfully",
           remote |-> remote, results |-> results]
DeleteVideo(vs, videoId, r1, r2) ==
  LET found == FindById(vs, videoId)
      old == CHOOSE d \in found : TRUE
      thumbnailId == ExtractPublicId(old.thumbnail)
      videofileId == ExtractPublicId(old.videofile)
      same == thumbnailId = videofileId
      remote == IF same THEN <<Destroy(<<videofileId, "video">>)>>
                ELSE <<Destroy(<<videofileId, "video">>),
                       Destroy(<<thumbnailId, "image">>)>>
      results == IF same THEN <<r1>> ELSE <<r1, r2>>
  IN IF found = {}
     THEN [videos |-> vs, status |-> 404, msg |-> "video not found",
           remote |-> <<>>, results |-> <<>>]
     ELSE IF NotOk(results) = "TypeError"
     THEN [videos |-> vs, status |-> 500, msg |-> "TypeError",
           remote |-> remote, results |-> results]
     ELSE IF NotOk(results) = "failed"
     THEN [videos |-> vs, status |-> 400,
           msg |-> "API error. file not properly deleted",
           remote |-> remote, results |-> results]
     ELSE [videos |-> vs \ found, status |-> 200,
           msg |-> "video deleted successfully",
           remote |-> remote, results |-> results]

EditUnchanged == UNCHANGED <<likes, subscriptions, docSeq, toggled, comments,
                             watchhistory, users, registered, tokenSeq,
                             inflight, resetTokens, issued, resets>>

updateVideo ==
  /\ nreq < MaxEditReqs
  /\ \E u \in UserIds, videoId \in IdParams(videos) \ {0},
        title \in {Absent, Str(<<" ">>), Str(<<"A", "b">>)},
        description \in {Absent, Str(<<>>), Str(<<"b">>)},
        hasFile \in BOOLEAN, uploaded \in BOOLEAN :
       LET r == UpdateVideo(videos, videoId, title, description, hasFile,
                            uploaded)
       IN /\ videos' = r.videos
          /\ resp' = [op |-> "updateVideo", caller |-> u, target |-> videoId,
                      docOwner |-> OwnerOf(videos, videoId),
                      title |-> title, description |-> description,
                      hasFile |-> hasFile, uploaded |-> uploaded,
                      status |-> r.status, msg |-> r.msg,
                      remote |-> r.remote]
  /\ nreq' = nreq + 1
  /\ UNCHANGED <<tweets, playlists>>
  /\ EditUnchanged

deleteVideo ==
  /\ nreq < MaxEditReqs
  /\ \E u \in UserIds, videoId \in IdParams(videos) \ {0},
        r1 \in RemoteResults, r2 \in RemoteResults :
       LET r == DeleteVideo(videos, videoId, r1, r2)
       IN /\ videos' = r.videos
          /\ resp' = [op |-> "deleteVideo", caller |-> u, target |-> videoId,
                      docOwner |-> OwnerOf(videos, videoId),
                      status |-> r.status, msg |-> r.msg,
                      remote |-> r.remote, results |-> r.results]
  /\ nreq' = nreq + 1
  /\ UNCHANGED <<tweets, playlists>>
  /\ EditUnchanged

\* a store with two videos and the account of the owner of the first: the
\* thumbnail of video 1 is a frame of the video file, video 2 was published
\* with a thumbnail of its own
InitMedia ==
  /\ likes = {}
  /\ subscriptions = {}
  /\ docSeq = 2
  /\ toggled = [k \in ToggleKeys |-> 0]
  /\ videos = {VideoDoc(1, "u1", <<"a">>, <<"b">>),
               [VideoDoc(2, "u2", <<"b">>, <<"a">>)
                  EXCEPT !.thumbnail = Asset(9, "jpg")]}
  /\ comments = {}
  /\ tweets = {}
  /\ playlists = {}
  /\ watchhistory = [u \in UserIds |-> <<>>]
  /\ users = {[id |-> "u1", username |-> "alice", email |-> "a@x",
               password |-> Hash("pw1"), avatar |-> "url0",
               coverimage |-> "url0", refreshToken |-> NoToken]}
  /\ registered = {<<"alice", "a@x">>}
  /\ tokenSeq = 0
  /\ resp = NoResp
  /\ nreq = 0
  /\ inflight = [r \in Requests |-> Idle]
  /\ resetTokens = {}
  /\ issued = {}
  /\ resets = {}

NextMedia ==
  \/ updateAvatar
  \/ updateCoverPhoto
  \/ updateVideo
  \/ deleteVideo

SpecMedia == InitMedia /\ [][NextMedia]_vars

\* a body field or file that was sent and is not blank
Supplied(field) == field # Absent /\ Trim(field.v) # <<>>

\* C22: updateVideo on an existing video succeeds whenever at least one of
\* title, description or a thumbnail file is supplied (and the upload of a
\* supplied thumbnail succeeds), and answers 400 "atleast provide one of
\* title, description or thumbnail" exactly when none of the three is
\* supplied.
C22_UpdateVideoNeedsOneField ==
  (resp.op = "updateVideo" /\ resp.docOwner # "none") =>
    LET any == \/ Supplied(resp.title)
               \/ Supplied(resp.description)
               \/ resp.hasFile
    IN /\ (any /\ (resp.hasFile => resp.uploaded)) => resp.status = 200
       /\ (resp.status = 400) <=> ~any

\* C23: deleteVideo removes the Video document only after every remote
\* deletion it issued reported "ok" (one deletion when thumbnail and video
\* file give the same public id, two otherwise); when a remote deletion
\* does not report success the request fails and the document is still
\* present.
C23_DeleteVideoAfterRemoteOk ==
  [][resp'.op = "deleteVideo" =>
       LET old == FindById(videos, resp'.target)
           doc == CHOOSE d \in old : TRUE
           issued1 == ExtractPublicId(doc.thumbnail)
                        = ExtractPublicId(doc.videofile)
       IN /\ videos' # videos =>
               /\ \A i \in DOMAIN resp'.results : resp'.results[i] = "ok"
               /\ Len(resp'.remote) = (IF issued1 THEN 1 ELSE 2)
               /\ Len(resp'.results) = Len(resp'.remote)
               /\ videos' = videos \ old
          /\ (\E i \in DOMAIN resp'.results : resp'.results[i] # "ok") =>
               /\ resp'.status # 200
               /\ videos' = videos]_vars

\* video 2, whose thumbnail and video file are two assets, was deleted
\* after two remote deletions
C23_Witness ==
  /\ resp.op = "deleteVideo" /\ resp.status = 200
  /\ resp.target = 2 /\ Len(resp.remote) = 2
  /\ FindById(videos, 2) = {}

\* C24: in updateAvatar, updateCoverPhoto and the thumbnail replacement of
\* updateVideo the old remote asset is deleted only after the upload of
\* the new one succeeded; when the upload fails the request fails, no
\* remote deletion is issued and the stored url is unchanged.
C24_DeleteOldAfterUpload ==
  [][resp'.op \in {"updateAvatar", "updateCoverPhoto", "updateVideo"} =>
       LET remote == resp'.remote
       IN /\ \A i \in DOMAIN remote :
               remote[i][1] = "destroy" =>
                 \E j \in 1..(i - 1) : remote[j] = Upload(TRUE)
          /\ (\E i \in DOMAIN remote : remote[i] = Upload(FALSE)) =>
               /\ resp'.status # 200
               /\ \A i \in DOMAIN remote : remote[i][1] # "destroy"
               /\ users' = users
               /\ videos' = videos]_vars

\* an updateVideo request with all three fields whose upload failed
C24_Witness ==
  /\ resp.op = "updateVideo"
  /\ resp.hasFile /\ ~resp.uploaded
  /\ resp.remote = <<Upload(FALSE)>>
  /\ resp.status = 500

\* ------------------------------------------------------------------ tweets
\* createTweet: the content must be given; the owner is req.user._id
CreateTweet(ts, u, content, newId) ==
  IF content = ""
  THEN [tweets |-> ts, status |-> 400, msg |-> "tweet content is required"]
  ELSE [tweets |-> ts \cup {[id |-> newId, owner |-> u, content |-> content]},
        status |-> 200, msg |-> "tweet created successfully"]

\* updateTweet: Tweet.findByIdAndUpdate(tweetId, {content}); a malformed id
\* fails the cast of the query (CastError)
UpdateTweet(ts, tweetId, content) ==
  IF content = ""
  THEN [tweets |-> ts, status |-> 400, msg |-> "tweet content is required"]
  ELSE IF ~isValidObjectId(tweetId)
  THEN [tweets |-> ts, status |-> 500, msg |-> "CastError"]
  ELSE IF FindById(ts, tweetId) = {}
  THEN [tweets |-> ts, status |-> 400, msg |-> "Api error. tweet not updated"]
  ELSE [tweets |-> {IF d.id = tweetId THEN [d EXCEPT !.content = content]
                    ELSE d : d \in ts},
        status |-> 200, msg |-> "tweet updated successfully"]

\* deleteTweet: Tweet.findByIdAndDelete(tweetId)
DeleteTweet(ts, tweetId) ==
  IF ~isValidObjectId(tweetId)
  THEN [tweets |-> ts, status |-> 500, msg |-> "CastError"]
  ELSE IF FindById(ts, tweetId) = {}
  THEN [tweets |-> ts, status |-> 400, msg |-> "Api error. tweet not deleted"]
  ELSE [tweets |-> ts \ FindById(ts, tweetId), status |-> 200,
        msg |-> "tweet deleted successfully"]

TweetResp(op, u, tweetId, r) ==
  [op |-> op, caller |-> u, target |-> tweetId,
   docOwner |-> OwnerOf(tweets, tweetId), status |-> r.status, msg |-> r.msg]

createTweet ==
  /\ nreq < MaxEditReqs
  /\ docSeq < MaxDocs
  /\ \E u \in UserIds, content \in Texts :
       LET r == CreateTweet(tweets, u, content, docSeq + 1)
       IN /\ tweets' = r.tweets
          /\ docSeq' = IF r.status = 200 THEN docSeq + 1 ELSE docSeq
          /\ resp' = TweetResp("createTweet", u, docSeq + 1, r)
  /\ nreq' = nreq + 1
  /\ UNCHANGED <<likes, subscriptions, toggled, videos, comments, playlists,
                 watchhistory, users, registered, tokenSeq, inflight,
                 resetTokens, issued, resets>>

updateTweet ==
  /\ nreq < MaxEditReqs
  /\ \E u \in UserIds, tweetId \in IdParams(tweets),
        content \in Texts \cup {"edit"} :
       LET r == UpdateTweet(tweets, tweetId, content)
       IN /\ tweets' = r.tweets
          /\ resp' = TweetResp("updateTweet", u, tweetId, r)
  /\ nreq' = nreq + 1
  /\ UNCHANGED <<videos, playlists>>
  /\ EditUnchanged

deleteTweet ==
  /\ nreq < MaxEditReqs
  /\ \E u \in UserIds, tweetId \in IdParams(tweets) :
       LET r == DeleteTweet(tweets, tweetId)
       IN /\ tweets' = r.tweets
          /\ resp' = TweetResp("deleteTweet", u, tweetId, r)
  /\ nreq' = nreq + 1
  /\ UNCHANGED <<videos, playlists>>
  /\ EditUnchanged

\* ------------------------------------------------------------- ownership
\* the requests that change a Tweet, a Video or a Playlist
NextOwner ==
  \/ createTweet
  \/ updateTweet
  \/ deleteTweet
  \/ updateVideo
  \/ deleteVideo
  \/ \E r \in Requests : addVideoToPlaylistLoad(r)
  \/ \E r \in Requests : addVideoToPlaylistSave(r)
  \/ \E r \in Requests : removeVideoFromPlaylistLoad(r)
  \/ \E r \in Requests : removeVideoFromPlaylistSave(r)
  \/ \E r \in Requests : updatePlaylistLoad(r)
  \/ \E r \in Requests : updatePlaylistSave(r)

SpecOwner == InitContent /\ [][NextOwner]_vars

\* C21: every successful mutation of a Tweet (updateTweet, deleteTweet), a
\* Video (updateVideo, deleteVideo) or a Playlist (addVideoToPlaylist,
\* removeVideoFromPlaylist, updatePlaylist) is performed by the owner of
\* the mutated document; a request by another authenticated user leaves
\* the document unchanged.
C21_MutatedOnlyByOwner ==
  [][/\ (resp'.op \in {"updateTweet", "deleteTweet"} /\ tweets' # tweets)
          => OwnerOf(tweets, resp'.target) = resp'.caller
     /\ (resp'.op \in {"updateVideo", "deleteVideo"} /\ videos' # videos)
          => OwnerOf(videos, resp'.target) = resp'.caller
     /\ (/\ resp'.op \in {"addVideoToPlaylist", "removeVideoFromPlaylist",
                           "updatePlaylist"}
         /\ playlists' # playlists)
          => OwnerOf(playlists, resp'.target) = resp'.caller]_vars

\* ------------------------------------------------------- views and history
\* the users whose stored watch history contains the video
Watchers(videoId) == {u \in UserIds : CountIn(watchhistory[u], videoId) > 0}

\* C29: in every reachable state in which no getVideoById request is in
\* progress, each Video's view count equals the number of users whose
\* stored watch history contains that video, also after getVideoById
\* requests for the same video by different users have interleaved.
C29_ViewsMatchWatchers ==
  (\A r \in Requests : inflight[r].op # "getVideoById") =>
    \A d \in videos : d.views = Cardinality(Watchers(d.id))

====
